---------------------------- MODULE Spec2Model ----------------------------
(***************************************************************************)
(* Model of the terminal engine of src-tauri: the escape-sequence decoder  *)
(* (ansi.rs), the grid and the session orchestrator (terminal.rs), the     *)
(* PTY registry and its output channel (pty.rs, lib.rs), the shell hook    *)
(* tracker (shell_hooks.rs) and the scrollback index (search.rs).          *)
(*                                                                         *)
(* Text is a sequence of characters.  A printable character is the string  *)
(* of length one that holds it; a control character is one of the named    *)
(* constants below.                                                        *)
(***************************************************************************)
EXTENDS Integers, Sequences, FiniteSets, TLC

VARIABLES
    \* a decoder fed one output stream in chunks (SpecDecoder)
    stream,      \* the text the child process writes, chosen at the start
    parser,      \* the AnsiParser
    ops,         \* every command the calls of parse returned so far, in order
    chunks       \* the chunks fed so far, in order

decVars == <<stream, parser, ops, chunks>>

VARIABLES
    \* one Terminal driven through its public operations (SpecTerminal)
    term,             \* the Terminal: grid, parser and size
    before,           \* the Terminal as it was when the last operation began
    overflow_checks,  \* whether the build panics on integer overflow
    crashed,          \* a panic unwound out of an operation on term
    last,             \* the operation applied last and its argument
    steps             \* the number of operations applied

termVars == <<term, before, overflow_checks, crashed, last, steps>>

VARIABLES
    \* one ShellHooks fed output chunks (SpecHooks)
    hooks,       \* the ShellHooks
    clock,       \* the system clock, in milliseconds
    fed          \* the chunks process_output was called with, in order

hookVars == <<hooks, clock, fed>>

VARIABLES
    \* the TerminalManager, its four stores and the output channel (SpecOrch)
    terminals,     \* TerminalManager.terminals: session id -> Terminal
    shell_hooks,   \* ShellHooksManager.hooks: session id -> ShellHooks
    search_index,  \* SearchIndexManager.sessions: session id -> ScrollbackIndex
    processes,     \* PtyManager.processes: session id -> PtySession
    poisoned,      \* the std::sync::Mutex locks a panic has poisoned
    channel,       \* the TerminalOutput messages sent and not yet received
    events,        \* the "terminal-output" events emitted to the frontend
    next_id,       \* the session id Uuid::new_v4 gives the next session
    closed,        \* the session ids close_terminal returned Ok for
    outcome,       \* how the orchestrator operation called last ended
    call           \* the orchestrator operation called last and its session id

orchVars == <<terminals, shell_hooks, search_index, processes, poisoned,
              channel, events, next_id, closed, outcome, call>>

VARIABLES
    \* one ScrollbackIndex that is appended to and searched (SpecIndex)
    scrollback,  \* the ScrollbackIndex
    appended,    \* the chunks append was called with, in order
    asked,       \* the arguments of the last call of search
    found,       \* the matches the last call of search returned
    shown        \* the last call of context or tail and the lines it returned

idxVars == <<scrollback, appended, asked, found, shown>>

VARIABLES
    \* the write handle of one PTY session and the tasks that write to it
    \* (SpecWriter)
    session_open,  \* whether PtyManager.processes holds the session
    pty_writer,    \* PtyProcess.writer: the tokio Mutex and the Option in it
    write_tasks,   \* the calls of write_to_session and the tasks they spawned
    pty_in,        \* the bytes the writer of the PTY was given, in order
    close_pc       \* how far close_session has come

writerVars == <<session_open, pty_writer, write_tasks, pty_in, close_pc>>

VARIABLES
    \* the threads that call the TerminalManager for the search index, whose
    \* store is search_index (SpecIndexLock)
    index_lock,    \* the thread that holds the Mutex of search_index, or 0
    threads,       \* what each thread called and how far the call has come
    lock_calls     \* the number of calls made

lockVars == <<index_lock, threads, lock_calls>>

syncVars == <<writerVars, lockVars>>

vars == <<decVars, termVars, hookVars, orchVars, idxVars, syncVars>>

-----------------------------------------------------------------------------
(* Characters *)

ESC == "ESC"
BEL == "BEL"
BS  == "BS"
TAB == "TAB"
CR  == "CR"
LF  == "LF"
GRAVE == "GRAVE"    \* the grave accent, 0x60

UpperLetters ==
    {"A","B","C","D","E","F","G","H","I","J","K","L","M",
     "N","O","P","Q","R","S","T","U","V","W","X","Y","Z"}

LowerLetters ==
    {"a","b","c","d","e","f","g","h","i","j","k","l","m",
     "n","o","p","q","r","s","t","u","v","w","x","y","z"}

Letters == UpperLetters \cup LowerLetters

DigitChars == <<"0","1","2","3","4","5","6","7","8","9">>

IsDigit(ch) == \E i \in 1..10 : DigitChars[i] = ch

DigitVal(ch) == (CHOOSE i \in 1..10 : DigitChars[i] = ch) - 1

\* The printable ASCII characters in code order, 0x20 first.
AsciiTable ==
    <<" ","!","\"","#","$","%","&","'","(",")","*","+",",","-",".","/",
      "0","1","2","3","4","5","6","7","8","9",":",";","<","=",">","?",
      "@","A","B","C","D","E","F","G","H","I","J","K","L","M","N","O",
      "P","Q","R","S","T","U","V","W","X","Y","Z","[","\\","]","^","_",
      GRAVE,"a","b","c","d","e","f","g","h","i","j","k","l","m","n","o",
      "p","q","r","s","t","u","v","w","x","y","z","{","|","}","~">>

\* The byte of a character (str::as_bytes on ASCII text).
ByteOf(ch) ==
    CASE ch = ESC -> 27
      [] ch = BEL -> 7
      [] ch = BS  -> 8
      [] ch = TAB -> 9
      [] ch = LF  -> 10
      [] ch = CR  -> 13
      [] OTHER    -> 31 + (CHOOSE i \in 1..Len(AsciiTable) : AsciiTable[i] = ch)

AsBytes(s) == [i \in 1..Len(s) |-> ByteOf(s[i])]

-----------------------------------------------------------------------------
(* String helpers (std::str) *)

StartsWith(s, p) ==
    /\ Len(s) >= Len(p)
    /\ \A i \in 1..Len(p) : s[i] = p[i]

Contains(s, ch) == \E i \in 1..Len(s) : s[i] = ch

\* s[from..] with a zero-based byte offset, as Rust slices
DropFirst(s, k) == SubSeq(s, k + 1, Len(s))

\* position of the first ch in s, 0 when there is none
FirstIndex(s, ch) ==
    IF Contains(s, ch) THEN CHOOSE i \in 1..Len(s) :
                                /\ s[i] = ch
                                /\ \A j \in 1..(i - 1) : s[j] # ch
    ELSE 0

\* str::split(sep): the pieces between separators, empty pieces included
RECURSIVE Split(_, _)
Split(s, sep) ==
    IF ~Contains(s, sep) THEN <<s>>
    ELSE <<SubSeq(s, 1, FirstIndex(s, sep) - 1)>>
            \o Split(DropFirst(s, FirstIndex(s, sep)), sep)

\* str::splitn(2, sep): cut at the first separator only
SplitN2(s, sep) ==
    IF ~Contains(s, sep) THEN <<s>>
    ELSE <<SubSeq(s, 1, FirstIndex(s, sep) - 1), DropFirst(s, FirstIndex(s, sep))>>

RECURSIVE DigitsValue(_)
DigitsValue(s) ==
    IF s = <<>> THEN 0
    ELSE 10 * DigitsValue(SubSeq(s, 1, Len(s) - 1)) + DigitVal(s[Len(s)])

\* the digits of a number, -1 when they are none or the value is not below limit
ParseDigits(body, limit) ==
    IF /\ body # <<>>
       /\ \A i \in 1..Len(body) : IsDigit(body[i])
       /\ DigitsValue(body) < limit
    THEN DigitsValue(body)
    ELSE -1

\* str::parse::<uN>(): an optional plus sign, then digits, the value below limit.
\* The result is -1 when the parse fails.
ParseUnsigned(s, limit) ==
    ParseDigits(IF s # <<>> /\ s[1] = "+" THEN Tail(s) ELSE s, limit)

U16 == 65536
U8  == 256

\* split(';').filter_map(|s| s.parse().ok()).collect()
KeepParsed(v) == IF v >= 0 THEN <<v>> ELSE <<>>

RECURSIVE FilterParsed(_, _)
FilterParsed(pieces, limit) ==
    IF pieces = <<>> THEN <<>>
    ELSE KeepParsed(ParseUnsigned(Head(pieces), limit))
            \o FilterParsed(Tail(pieces), limit)

\* params.get(i).copied().unwrap_or(d), i zero-based
GetOr(params, i, d) == IF i + 1 <= Len(params) THEN params[i + 1] ELSE d


-----------------------------------------------------------------------------
(* ansi.rs: AnsiCommand.  Every command is a record of the same shape: op  *)
(* names the variant, n and m are its numeric fields, text its string,     *)
(* params its byte vector and tag its CursorStyle or MouseReportMode.      *)

Cmd(op, n, m, text, params, tag) ==
    [op |-> op, n |-> n, m |-> m, text |-> text, params |-> params, tag |-> tag]

Plain(op)          == Cmd(op, 0, 0, <<>>, <<>>, "")
Num(op, n)         == Cmd(op, n, 0, <<>>, <<>>, "")
Num2(op, n, m)     == Cmd(op, n, m, <<>>, <<>>, "")
Str(op, text)      == Cmd(op, 0, 0, text, <<>>, "")
Bytes(op, params)  == Cmd(op, 0, 0, <<>>, params, "")
Tagged(op, tag)    == Cmd(op, 0, 0, <<>>, <<>>, tag)

PrintText(text)    == Str("PrintText", text)
Unknown(seq)       == Str("Unknown", seq)

-----------------------------------------------------------------------------
(* base64 STANDARD engine, used by the iTerm2 image sequence *)

Base64Alphabet ==
    <<"A","B","C","D","E","F","G","H","I","J","K","L","M","N","O","P",
      "Q","R","S","T","U","V","W","X","Y","Z","a","b","c","d","e","f",
      "g","h","i","j","k","l","m","n","o","p","q","r","s","t","u","v",
      "w","x","y","z","0","1","2","3","4","5","6","7","8","9","+","/">>

IsBase64Char(ch) == \E i \in 1..64 : Base64Alphabet[i] = ch

Base64Val(ch) == (CHOOSE i \in 1..64 : Base64Alphabet[i] = ch) - 1

Base64Pad(q) == IF q[4] # "=" THEN 0 ELSE IF q[3] # "=" THEN 1 ELSE 2

Base64Sextet(ch) == IF ch = "=" THEN 0 ELSE Base64Val(ch)

Base64Bits(q) ==
    ((Base64Sextet(q[1]) * 64 + Base64Sextet(q[2])) * 64 + Base64Sextet(q[3])) * 64
        + Base64Sextet(q[4])

ThreeBytes(bits) == <<bits \div 65536, (bits \div 256) % 256, bits % 256>>

\* the bytes of one quantum of four characters, the last one or two of
\* which may be padding
Base64Quantum(q) == SubSeq(ThreeBytes(Base64Bits(q)), 1, 3 - Base64Pad(q))

\* canonical padded input only: whole quanta, padding at the very end,
\* no bits set under the padding
Base64Valid(s) ==
    /\ Len(s) % 4 = 0
    /\ \A i \in 1..Len(s) :
          \/ IsBase64Char(s[i])
          \/ /\ s[i] = "="
             /\ i >= Len(s) - 1
             /\ i = Len(s) \/ s[Len(s)] = "="
    /\ Len(s) > 0 /\ s[Len(s)] = "=" =>
          IF s[Len(s) - 1] = "=" THEN Base64Val(s[Len(s) - 2]) % 16 = 0
          ELSE Base64Val(s[Len(s) - 1]) % 4 = 0

RECURSIVE Base64Decode(_)
Base64Decode(s) ==
    IF s = <<>> THEN <<>>
    ELSE Base64Quantum(SubSeq(s, 1, 4)) \o Base64Decode(DropFirst(s, 4))

-----------------------------------------------------------------------------
(* ansi.rs: the sequence parsers *)

CsiPrefix == <<ESC, "[">>
OscPrefix == <<ESC, "]">>
DcsPrefix == <<ESC, "P">>

\* the match on the final byte of a control sequence
CsiCommand(seq, command_char, params_str, params) ==
        CASE command_char = "A" -> Num("CursorUp", GetOr(params, 0, 1))
          [] command_char = "B" -> Num("CursorDown", GetOr(params, 0, 1))
          [] command_char = "C" -> Num("CursorRight", GetOr(params, 0, 1))
          [] command_char = "D" -> Num("CursorLeft", GetOr(params, 0, 1))
          [] command_char = "E" -> Num("CursorNextLine", GetOr(params, 0, 1))
          [] command_char = "F" -> Num("CursorPrevLine", GetOr(params, 0, 1))
          [] command_char = "G" -> Num("CursorColumn", GetOr(params, 0, 1))
          [] command_char \in {"H", "f"} ->
                Num2("CursorPosition", GetOr(params, 0, 1), GetOr(params, 1, 1))
          [] command_char = "s" -> Plain("CursorSave")
          [] command_char = "u" -> Plain("CursorRestore")
          [] command_char = "J" ->
                CASE GetOr(params, 0, 0) = 0 -> Plain("ClearFromCursor")
                  [] GetOr(params, 0, 0) = 1 -> Plain("ClearToCursor")
                  [] GetOr(params, 0, 0) = 2 -> Plain("ClearScreen")
                  [] GetOr(params, 0, 0) = 3 -> Plain("ClearScreen")
                  [] OTHER     -> Unknown(seq)
          [] command_char = "K" ->
                CASE GetOr(params, 0, 0) = 0 -> Plain("ClearToEndOfLine")
                  [] GetOr(params, 0, 0) = 1 -> Plain("ClearToBeginningOfLine")
                  [] GetOr(params, 0, 0) = 2 -> Plain("ClearLine")
                  [] OTHER     -> Unknown(seq)
          [] command_char = "L" -> Num("InsertLines", GetOr(params, 0, 1))
          [] command_char = "M" -> Num("DeleteLines", GetOr(params, 0, 1))
          [] command_char = "P" -> Num("DeleteCharacters", GetOr(params, 0, 1))
          [] command_char = "@" -> Num("InsertCharacters", GetOr(params, 0, 1))
          [] command_char = "S" -> Num("ScrollUp", GetOr(params, 0, 1))
          [] command_char = "T" -> Num("ScrollDown", GetOr(params, 0, 1))
          [] command_char = "r" ->
                Num2("SetScrollRegion", GetOr(params, 0, 1), GetOr(params, 1, 24))
          [] command_char = "m" ->
                Bytes("SetGraphicsMode", FilterParsed(Split(params_str, ";"), U8))
          [] command_char = "q" /\ StartsWith(params_str, <<" ">>) ->
                CASE GetOr(params, 0, 1) \in {0, 1} -> Tagged("SetCursorStyle", "BlinkingBlock")
                  [] GetOr(params, 0, 1) = 2 -> Tagged("SetCursorStyle", "Block")
                  [] GetOr(params, 0, 1) = 3 -> Tagged("SetCursorStyle", "BlinkingUnderline")
                  [] GetOr(params, 0, 1) = 4 -> Tagged("SetCursorStyle", "Underline")
                  [] GetOr(params, 0, 1) = 5 -> Tagged("SetCursorStyle", "BlinkingBar")
                  [] GetOr(params, 0, 1) = 6 -> Tagged("SetCursorStyle", "Bar")
                  [] OTHER     -> Unknown(seq)
          [] command_char = "h" /\ params_str = <<"?","1","0","0","0">> ->
                Tagged("EnableMouseReporting", "Normal")
          [] command_char = "l" /\ params_str = <<"?","1","0","0","0">> ->
                Tagged("DisableMouseReporting", "Normal")
          [] command_char = "h" /\ params_str = <<"?","1","0","0","2">> ->
                Tagged("EnableMouseReporting", "Button")
          [] command_char = "l" /\ params_str = <<"?","1","0","0","2">> ->
                Tagged("DisableMouseReporting", "Button")
          [] command_char = "h" /\ params_str = <<"?","1","0","0","3">> ->
                Tagged("EnableMouseReporting", "Any")
          [] command_char = "l" /\ params_str = <<"?","1","0","0","3">> ->
                Tagged("DisableMouseReporting", "Any")
          [] command_char = "h" /\ params_str = <<"?","1","0","0","6">> ->
                Tagged("EnableMouseReporting", "SGR")
          [] command_char = "l" /\ params_str = <<"?","1","0","0","6">> ->
                Tagged("DisableMouseReporting", "SGR")
          [] command_char = "h" /\ (params_str = <<"?","1","0","4","9">> \/ params_str = <<"?","4","7">>) ->
                Plain("EnterAlternateScreen")
          [] command_char = "l" /\ (params_str = <<"?","1","0","4","9">> \/ params_str = <<"?","4","7">>) ->
                Plain("ExitAlternateScreen")
          [] command_char = "h" /\ params_str = <<"?","2","5">> -> Plain("ShowCursor")
          [] command_char = "l" /\ params_str = <<"?","2","5">> -> Plain("HideCursor")
          [] command_char = "h" /\ params_str = <<"?","2","0","0","4">> ->
                Plain("EnableBracketedPaste")
          [] command_char = "l" /\ params_str = <<"?","2","0","0","4">> ->
                Plain("DisableBracketedPaste")
          [] command_char = "h" /\ params_str = <<"?","1","0","0","4">> ->
                Plain("EnableFocusEvents")
          [] command_char = "l" /\ params_str = <<"?","1","0","0","4">> ->
                Plain("DisableFocusEvents")
          [] command_char = "h" /\ params_str = <<"?","2","0","2","6">> ->
                Plain("BeginSynchronizedUpdate")
          [] command_char = "l" /\ params_str = <<"?","2","0","2","6">> ->
                Plain("EndSynchronizedUpdate")
          [] OTHER -> Unknown(seq)

parse_csi_sequence(seq) ==
    IF ~StartsWith(seq, CsiPrefix) THEN Unknown(seq)
    ELSE CsiCommand(seq, seq[Len(seq)], SubSeq(seq, 3, Len(seq) - 1),
                    FilterParsed(Split(SubSeq(seq, 3, Len(seq) - 1), ";"), U16))

FilePrefix == <<"F","i","l","e","=">>

\* parts.get(1).unwrap_or(&"")
SecondOrEmpty(parts) == IF Len(parts) >= 2 THEN parts[2] ELSE <<>>

\* the match on the number of an operating-system command
OscCommand(seq, parts, command_num) ==
    CASE command_num \in {0, 2} -> Str("SetWindowTitle", SecondOrEmpty(parts))
      [] command_num = 1 -> Str("SetIconTitle", SecondOrEmpty(parts))
      [] command_num = 8 ->
            Str("SetHyperlink", SecondOrEmpty(SplitN2(SecondOrEmpty(parts), ";")))
      [] command_num = 1337 ->
            IF /\ Len(parts) >= 2
               /\ StartsWith(parts[2], FilePrefix)
               /\ Base64Valid(DropFirst(parts[2], 5))
            THEN Cmd("DisplayImage", 0, 0, <<>>,
                     Base64Decode(DropFirst(parts[2], 5)), "png")
            ELSE Unknown(seq)
      [] OTHER -> Unknown(seq)

OscParts(seq, parts) == OscCommand(seq, parts, ParseUnsigned(parts[1], U16))

parse_osc_sequence(seq) ==
    IF ~StartsWith(seq, OscPrefix) THEN Unknown(seq)
    ELSE OscParts(seq, SplitN2(DropFirst(seq, 2), ";"))

DcsContent(content) ==
    IF StartsWith(content, <<"q">>) \/ Contains(content, "#")
    THEN Bytes("DisplaySixel", AsBytes(content))
    ELSE Str("DeviceControlString", content)

parse_dcs_sequence(seq) ==
    IF ~StartsWith(seq, DcsPrefix) THEN Unknown(seq)
    ELSE DcsContent(DropFirst(seq, 2))

parse_escape_sequence(escape_type, seq) ==
    IF Len(seq) < 2 THEN Unknown(seq)
    ELSE CASE escape_type = "CSI" -> parse_csi_sequence(seq)
           [] escape_type = "OSC" -> parse_osc_sequence(seq)
           [] escape_type = "DCS" -> parse_dcs_sequence(seq)
           [] OTHER               -> Unknown(seq)

-----------------------------------------------------------------------------
(* ansi.rs: CharAttributes and AnsiParser *)

DefaultAttributes ==
    [bold |-> FALSE, italic |-> FALSE, underline |-> FALSE,
     strikethrough |-> FALSE, reverse |-> FALSE,
     fg_color |-> "None", bg_color |-> "None"]

NewParser ==
    [buffer |-> <<>>, in_escape |-> FALSE, escape_type |-> "None",
     current_attributes |-> DefaultAttributes,
     saved_cursor |-> "None", hyperlink_stack |-> <<>>,
     in_synchronized_update |-> FALSE]

\* A step of the decoder: the parser afterwards and the commands pushed.
Step(p, out) == [p |-> p, out |-> out]

\* a flush that forgets to look whether a sequence is being accumulated
FlushAlways(p) ==
    IF p.buffer # <<>>
    THEN Step([p EXCEPT !.buffer = <<>>], <<PrintText(p.buffer)>>)
    ELSE Step(p, <<>>)

flush_buffer(p) ==
    IF p.buffer # <<>> /\ ~p.in_escape
    THEN Step([p EXCEPT !.buffer = <<>>], <<PrintText(p.buffer)>>)
    ELSE Step(p, <<>>)

reset_escape_state(p) ==
    [p EXCEPT !.buffer = <<>>, !.in_escape = FALSE, !.escape_type = "None"]

Push(p, ch) == [p EXCEPT !.buffer = Append(p.buffer, ch)]

\* one more command pushed after a step; no character of the input skipped
ThenPush(f, cmd) == [p |-> f.p, out |-> Append(f.out, cmd), skip |-> 0]

\* flush_buffer, then push one command
FlushThen(p, cmd) == ThenPush(flush_buffer(p), cmd)

\* after flush_buffer: a sequence starts with the escape introducer
StartEscape(f, ch) ==
    [p |-> Push([f.p EXCEPT !.in_escape = TRUE, !.escape_type = "None"], ch),
     out |-> f.out, skip |-> 0]

StringFamilies == {"OSC", "DCS", "PM", "APC"}

\* The family a byte selects right after the escape introducer.
FamilyOf(ch) ==
    CASE ch = "[" -> "CSI"
      [] ch = "]" -> "OSC"
      [] ch = "P" -> "DCS"
      [] ch = "^" -> "PM"
      [] ch = "_" -> "APC"
      [] ch = "N" -> "SS2"
      [] ch = "O" -> "SS3"
      [] OTHER    -> "None"

\* One iteration of the loop of parse: the arms of the match on ch, tried
\* in the order they are written.  peek is the next character of the same
\* input ("" at its end); skip is 1 when the arm consumed it.
ParseChar(p, ch, peek) ==
    IF ch = ESC THEN
        StartEscape(flush_buffer(p), ch)
    ELSE IF FamilyOf(ch) # "None" /\ p.in_escape /\ p.escape_type = "None" THEN
        [p |-> Push([p EXCEPT !.escape_type = FamilyOf(ch)], ch),
         out |-> <<>>, skip |-> 0]
    ELSE IF ch = BEL /\ p.in_escape /\ p.escape_type \in StringFamilies THEN
        [p |-> reset_escape_state(p),
         out |-> <<parse_escape_sequence(p.escape_type, p.buffer)>>, skip |-> 0]
    ELSE IF ch = ESC /\ p.in_escape /\ peek = "\\" THEN
        [p |-> reset_escape_state(p),
         out |-> <<parse_escape_sequence(p.escape_type, p.buffer)>>, skip |-> 1]
    ELSE IF ch \in Letters /\ p.in_escape /\ p.escape_type = "CSI" THEN
        [p |-> reset_escape_state(p),
         out |-> <<parse_escape_sequence(p.escape_type, Append(p.buffer, ch))>>,
         skip |-> 0]
    ELSE IF p.in_escape THEN
        [p |-> Push(p, ch), out |-> <<>>, skip |-> 0]
    ELSE IF ch = CR THEN
        FlushThen(p, Num("CursorColumn", 1))
    ELSE IF ch = LF THEN
        FlushThen(p, Num("CursorDown", 1))
    ELSE IF ch = BEL THEN
        FlushThen(p, Plain("Bell"))
    ELSE IF ch = TAB THEN
        FlushThen(p, Num("CursorRight", 8))
    ELSE IF ch = BS THEN
        FlushThen(p, Num("CursorLeft", 1))
    ELSE
        [p |-> Push(p, ch), out |-> <<>>, skip |-> 0]

\* an end of input that abandons the sequence being accumulated
ParseEndReset(p) ==
    IF p.in_escape THEN Step(reset_escape_state(p), <<>>) ELSE flush_buffer(p)

\* The text left in the buffer when the input ends is printed, unless a
\* sequence is being accumulated.
ParseEnd(p) == flush_buffer(p)

\* chars.peek(): the next character, "" at the end of the input
Peek(input, i) == IF i < Len(input) THEN input[i + 1] ELSE ""

\* the commands of the loop, followed by those of what comes after it
Prepend(out, rest) == Step(rest.p, out \o rest.out)

\* the state of the loop of parse: the parser, the commands pushed so far and
\* how many of the next characters an arm has consumed already (chars.next())
Loop(p, out, skip) == [p |-> p, out |-> out, skip |-> skip]

\* the commands of one iteration appended to those before it
Accumulate(out, one) == Loop(one.p, out \o one.out, one.skip)

\* the iteration for input[i], or none when the character was consumed
ParseStep(s, input, i) ==
    IF s.skip > 0 THEN Loop(s.p, s.out, s.skip - 1)
    ELSE Accumulate(s.out, ParseChar(s.p, input[i], Peek(input, i)))

\* the iterations for input[lo..hi], in order.  skip is never negative: the
\* test has the state computed before the iterations that start from it.
RECURSIVE ParseRange(_, _, _, _)
ParseRange(s, input, lo, hi) ==
    IF lo > hi \/ s.skip < 0 THEN s
    ELSE IF lo = hi THEN ParseStep(s, input, lo)
    ELSE ParseRange(ParseRange(s, input, lo, (lo + hi) \div 2),
                    input, (lo + hi) \div 2 + 1, hi)

\* after the loop, flush_buffer
Finish(s) == Prepend(s.out, ParseEnd(s.p))

\* AnsiParser::parse: the parser afterwards and the commands returned
parse(p, input) == Finish(ParseRange(Loop(p, <<>>, 0), input, 1, Len(input)))

-----------------------------------------------------------------------------
(* Machine integers.  u16 and i16 arithmetic that leaves the type's range  *)
(* panics in a build with overflow checks (the dev profile) and wraps in a *)
(* build without them (the release profile); `as` casts always wrap.       *)

Min(a, b) == IF a < b THEN a ELSE b
Max(a, b) == IF a > b THEN a ELSE b

AsU16(x) == x % 65536

AsI16(x) == IF x % 65536 >= 32768 THEN (x % 65536) - 65536 ELSE x % 65536

InU16(x) == x >= 0 /\ x <= 65535
InI16(x) == x >= -32768 /\ x <= 32767

-----------------------------------------------------------------------------
(* terminal.rs: TerminalChar and TerminalGrid.  An operation of the grid   *)
(* yields the grid it leaves and whether it panicked on the way.           *)

TerminalChar(ch, attributes) == [character |-> ch, attributes |-> attributes]

DefaultChar == TerminalChar(" ", DefaultAttributes)

BlankRow(cols) == [c \in 1..cols |-> DefaultChar]

Origin == [row |-> 0, col |-> 0]

NewGrid(cols, rows) ==
    [rows |-> [r \in 1..rows |-> BlankRow(cols)], cols |-> cols,
     cursor |-> Origin, saved_cursor |-> "None"]

Done(g)     == [g |-> g, panic |-> FALSE]
Panicked(g) == [g |-> g, panic |-> TRUE]

\* Vec::resize(new_len, value)
ResizeVec(v, new_len, value) ==
    [i \in 1..new_len |-> IF i <= Len(v) THEN v[i] ELSE value]

\* terminal.rs:50-63: the rows widened or narrowed, then added or truncated
ResizeRows(g, new_cols, new_rows) ==
    [g EXCEPT !.rows = ResizeVec([r \in 1..Len(g.rows) |->
                                     ResizeVec(g.rows[r], new_cols, DefaultChar)],
                                 new_rows, BlankRow(new_cols)),
              !.cols = new_cols]

\* terminal.rs:67: cursor.col.min(new_cols as u16 - 1)
ResizeClampCol(g, new_cols, checks) ==
    IF checks /\ ~InU16(AsU16(new_cols) - 1) THEN Panicked(g)
    ELSE Done([g EXCEPT !.cursor.col = Min(g.cursor.col, AsU16(AsU16(new_cols) - 1))])

\* terminal.rs:66: cursor.row.min(new_rows as u16 - 1)
ResizeClampRow(g, new_cols, new_rows, checks) ==
    IF checks /\ ~InU16(AsU16(new_rows) - 1) THEN Panicked(g)
    ELSE ResizeClampCol(
            [g EXCEPT !.cursor.row = Min(g.cursor.row, AsU16(AsU16(new_rows) - 1))],
            new_cols, checks)

\* TerminalGrid::resize; checks says whether overflow checks are compiled in
resize(g, new_cols, new_rows, checks) ==
    ResizeClampRow(ResizeRows(g, new_cols, new_rows), new_cols, new_rows, checks)

clear_screen(g) ==
    [g EXCEPT !.rows = [r \in 1..Len(g.rows) |-> BlankRow(Len(g.rows[r]))],
              !.cursor = Origin]

clear_line(g) ==
    IF g.cursor.row + 1 <= Len(g.rows)
    THEN [g EXCEPT !.rows[g.cursor.row + 1] = BlankRow(Len(g.rows[g.cursor.row + 1]))]
    ELSE g

\* a scroll that removes the top lines and appends nothing
ScrollNoRefill(g, lines) ==
    IF lines >= Len(g.rows) THEN clear_screen(g)
    ELSE [g EXCEPT !.rows = SubSeq(g.rows, lines + 1, Len(g.rows))]

\* a scroll that clears only when asked for more lines than the grid has
ScrollClearLate(g, lines) ==
    IF lines > Len(g.rows) THEN clear_screen(g)
    ELSE [g EXCEPT !.rows =
             [r \in 1..Len(g.rows) |->
                 IF r + lines <= Len(g.rows) THEN g.rows[r + lines]
                 ELSE BlankRow(g.cols)]]

\* TerminalGrid::scroll_up
scroll_up(g, lines) ==
    IF lines >= Len(g.rows) THEN clear_screen(g)
    ELSE [g EXCEPT !.rows =
             [r \in 1..Len(g.rows) |->
                 IF r + lines <= Len(g.rows) THEN g.rows[r + lines]
                 ELSE BlankRow(g.cols)]]

\* a wrap that overwrites: the cursor returns to column 0 of the same row
WrapSameRow(g) ==
    IF g.cursor.col >= g.cols THEN [g EXCEPT !.cursor.col = 0] ELSE g

\* terminal.rs:84-92: after a cell is written, wrap to the next row or scroll
WrapOrScroll(g) ==
    IF g.cursor.col >= g.cols
    THEN IF g.cursor.row < Len(g.rows) - 1
         THEN [g EXCEPT !.cursor.col = 0, !.cursor.row = g.cursor.row + 1]
         ELSE scroll_up([g EXCEPT !.cursor.col = 0], 1)
    ELSE g

\* TerminalGrid::write_char
write_char(g, ch, attributes) ==
    IF g.cursor.row >= Len(g.rows) THEN g
    ELSE IF ~(g.cursor.col < Len(g.rows[g.cursor.row + 1])) THEN g
    ELSE WrapOrScroll([g EXCEPT !.rows[g.cursor.row + 1][g.cursor.col + 1] =
                                    TerminalChar(ch, attributes),
                                !.cursor.col = g.cursor.col + 1])

\* terminal.rs:98: col.min(self.cols as u16 - 1)
MoveClampCol(g, col, checks) ==
    IF checks /\ ~InU16(AsU16(g.cols) - 1) THEN Panicked(g)
    ELSE Done([g EXCEPT !.cursor.col = Min(col, AsU16(AsU16(g.cols) - 1))])

\* TerminalGrid::move_cursor
move_cursor(g, row, col, checks) ==
    IF checks /\ ~InU16(AsU16(Len(g.rows)) - 1) THEN Panicked(g)
    ELSE MoveClampCol(
            [g EXCEPT !.cursor.row = Min(row, AsU16(AsU16(Len(g.rows)) - 1))],
            col, checks)

\* one coordinate of move_cursor_relative:
\* (cur as i16 + delta).max(0).min(size as i16 - 1) as u16
RelativeSum(cur, delta) == AsI16(cur) + delta
RelativeLimit(size)     == AsI16(size) - 1
RelativeCoord(cur, delta, size) ==
    AsU16(Min(Max(AsI16(RelativeSum(cur, delta)), 0), AsI16(RelativeLimit(size))))

\* TerminalGrid::move_cursor_relative
move_cursor_relative(g, delta_row, delta_col, checks) ==
    IF checks /\ ( \/ ~InI16(RelativeSum(g.cursor.row, delta_row))
                   \/ ~InI16(RelativeLimit(Len(g.rows)))
                   \/ ~InI16(RelativeSum(g.cursor.col, delta_col))
                   \/ ~InI16(RelativeLimit(g.cols)) )
    THEN Panicked(g)
    ELSE Done([g EXCEPT
                 !.cursor.row = RelativeCoord(g.cursor.row, delta_row, Len(g.rows)),
                 !.cursor.col = RelativeCoord(g.cursor.col, delta_col, g.cols)])

-----------------------------------------------------------------------------
(* ansi.rs: apply_graphics_mode *)

ColorNames ==
    <<"black", "red", "green", "yellow", "blue", "magenta", "cyan", "white">>

\* a table that knows the parameter of bold only
ApplyBoldOnly(a, param) == IF param = 1 THEN [a EXCEPT !.bold = TRUE] ELSE a

ApplyParam(a, param) ==
    CASE param = 0  -> DefaultAttributes
      [] param = 1  -> [a EXCEPT !.bold = TRUE]
      [] param = 3  -> [a EXCEPT !.italic = TRUE]
      [] param = 4  -> [a EXCEPT !.underline = TRUE]
      [] param = 7  -> [a EXCEPT !.reverse = TRUE]
      [] param = 9  -> [a EXCEPT !.strikethrough = TRUE]
      [] param = 22 -> [a EXCEPT !.bold = FALSE]
      [] param = 23 -> [a EXCEPT !.italic = FALSE]
      [] param = 24 -> [a EXCEPT !.underline = FALSE]
      [] param = 27 -> [a EXCEPT !.reverse = FALSE]
      [] param = 29 -> [a EXCEPT !.strikethrough = FALSE]
      [] param \in 30..37 -> [a EXCEPT !.fg_color = ColorNames[param - 29]]
      [] param = 39 -> [a EXCEPT !.fg_color = "None"]
      [] param \in 40..47 -> [a EXCEPT !.bg_color = ColorNames[param - 39]]
      [] param = 49 -> [a EXCEPT !.bg_color = "None"]
      [] OTHER -> a

RECURSIVE ApplyParams(_, _)
ApplyParams(a, params) ==
    IF params = <<>> THEN a
    ELSE ApplyParams(ApplyParam(a, Head(params)), Tail(params))

\* graphics modes that are decoded and not applied
ApplyNoGraphics(p, params) == p

apply_graphics_mode(p, params) ==
    [p EXCEPT !.current_attributes = ApplyParams(p.current_attributes, params)]

-----------------------------------------------------------------------------
(* terminal.rs: Terminal *)

TerminalSize(cols, rows) == [cols |-> cols, rows |-> rows]

NewTerminal(size) ==
    [grid |-> NewGrid(size.cols, size.rows), parser |-> NewParser, size |-> size]

TDone(t)     == [t |-> t, panic |-> FALSE]
TPanicked(t) == [t |-> t, panic |-> TRUE]

WithGrid(t, r) == [t |-> [t EXCEPT !.grid = r.g], panic |-> r.panic]

RECURSIVE WriteText(_, _, _)
WriteText(g, text, attributes) ==
    IF text = <<>> THEN g
    ELSE WriteText(write_char(g, Head(text), attributes), Tail(text), attributes)

\* Terminal::execute_command
execute_command(t, command, checks) ==
    CASE command.op = "PrintText" ->
            TDone([t EXCEPT !.grid =
                      WriteText(t.grid, command.text, t.parser.current_attributes)])
      [] command.op = "CursorUp" ->
            IF checks /\ ~InI16(-AsI16(command.n)) THEN TPanicked(t)
            ELSE WithGrid(t, move_cursor_relative(t.grid, AsI16(-AsI16(command.n)), 0,
                                                  checks))
      [] command.op = "CursorDown" ->
            WithGrid(t, move_cursor_relative(t.grid, AsI16(command.n), 0, checks))
      [] command.op = "CursorLeft" ->
            IF checks /\ ~InI16(-AsI16(command.n)) THEN TPanicked(t)
            ELSE WithGrid(t, move_cursor_relative(t.grid, 0, AsI16(-AsI16(command.n)),
                                                  checks))
      [] command.op = "CursorRight" ->
            WithGrid(t, move_cursor_relative(t.grid, 0, AsI16(command.n), checks))
      [] command.op = "CursorPosition" ->
            WithGrid(t, move_cursor(t.grid, Max(command.n - 1, 0),
                                    Max(command.m - 1, 0), checks))
      [] command.op = "CursorHome" ->
            WithGrid(t, move_cursor(t.grid, 0, 0, checks))
      [] command.op = "ClearScreen" -> TDone([t EXCEPT !.grid = clear_screen(t.grid)])
      [] command.op \in {"ClearLine", "ClearToEndOfLine", "ClearToBeginningOfLine"} ->
            TDone([t EXCEPT !.grid = clear_line(t.grid)])
      [] command.op = "ScrollUp" ->
            TDone([t EXCEPT !.grid = scroll_up(t.grid, command.n)])
      [] command.op = "SetGraphicsMode" ->
            TDone([t EXCEPT !.parser = apply_graphics_mode(t.parser, command.params)])
      [] OTHER -> TDone(t)

\* the loop of process_output: a panic ends it
RECURSIVE ExecuteAll(_, _, _)
ExecuteNext(one, commands, checks) ==
    IF one.panic THEN one ELSE ExecuteAll(one.t, Tail(commands), checks)

ExecuteAll(t, commands, checks) ==
    IF commands = <<>> THEN TDone(t)
    ELSE ExecuteNext(execute_command(t, Head(commands), checks), commands, checks)

\* the commands of a chunk applied to the terminal whose parser decoded them
ApplyParsed(t, r, checks) == ExecuteAll([t EXCEPT !.parser = r.p], r.out, checks)

\* Terminal::process_output
TerminalProcessOutput(t, data, checks) ==
    ApplyParsed(t, parse(t.parser, data), checks)

\* Terminal::resize
TerminalResize(t, new_size, checks) ==
    WithGrid([t EXCEPT !.size = new_size],
             resize(t.grid, new_size.cols, new_size.rows, checks))

-----------------------------------------------------------------------------
(* shell_hooks.rs: ShellHooks, the tracker of prompts and commands of one  *)
(* session.  An Option is a sequence: empty for None, one element for Some. *)
(* The Uuid of a Command is left out.  The lines the patterns are tried on  *)
(* never hold a line feed.                                                  *)

\* the characters \s and str::trim take for white space
Spaces == {" ", TAB, LF, CR}

\* str::trim_end_matches
RECURSIVE TrimEndMatches(_, _)
TrimEndMatches(s, set) ==
    IF s # <<>> /\ s[Len(s)] \in set THEN TrimEndMatches(SubSeq(s, 1, Len(s) - 1), set)
    ELSE s

RECURSIVE TrimStart(_)
TrimStart(s) == IF s # <<>> /\ s[1] \in Spaces THEN TrimStart(Tail(s)) ELSE s

\* str::trim
Trim(s) == TrimStart(TrimEndMatches(s, Spaces))

\* the first position from `from` on of a character of set, 0 when none
FirstOf(s, from, set) ==
    IF \E i \in from..Len(s) : s[i] \in set
    THEN CHOOSE i \in from..Len(s) :
            s[i] \in set /\ \A j \in from..(i - 1) : s[j] \notin set
    ELSE 0

\* only white space from position from on: the \s*$ that ends every pattern
BlankFrom(s, from) == \A i \in from..Len(s) : s[i] \in Spaces

\* ^[^@\s]+@[^:\s]+:[^E]*[E]\s*$ for the set E of enders: where the @, the
\* colon and the ender are, and whether the pattern matches
UserHostCut(s, enders) ==
    LET at    == FirstOf(s, 1, {"@"})
        colon == IF at = 0 THEN 0 ELSE FirstOf(s, at + 1, {":"})
        end   == IF colon = 0 THEN 0 ELSE FirstOf(s, colon + 1, enders)
    IN  [at |-> at, colon |-> colon, end |-> end,
         ok |-> /\ end > 0
                /\ at >= 2 /\ \A i \in 1..(at - 1) : s[i] \notin Spaces
                /\ colon >= at + 2 /\ \A i \in (at + 1)..(colon - 1) : s[i] \notin Spaces
                /\ BlankFrom(s, end + 1)]

\* ^PS\s+([A-Za-z]:[\\\/][^>]*|[~\/][^>]*)>\s*$: where the path starts, where
\* the > is, and whether the pattern matches
PowerShellCut(s) ==
    LET start == FirstOf(s, 3, { s[i] : i \in 1..Len(s) } \ Spaces)
        gt    == IF start = 0 THEN 0 ELSE FirstOf(s, start + 1, {">"})
    IN  [start |-> start, gt |-> gt,
         ok |-> /\ StartsWith(s, <<"P", "S">>)
                /\ start >= 4 /\ gt > 0
                /\ \/ s[start] \in {"~", "/"}
                   \/ /\ s[start] \in Letters
                      /\ s[start + 1] = ":"
                      /\ s[start + 2] \in {"\\", "/"}
                /\ BlankFrom(s, gt + 1)]

\* the patterns of init_prompt_patterns: some pattern of the shell matches s
PromptMatches(shell_type, s) ==
    LET Simple(ch) == s # <<>> /\ s[1] = ch /\ BlankFrom(s, 2)
        Closed(from) == FirstOf(s, from, {">"}) > 0
                        /\ BlankFrom(s, FirstOf(s, from, {">"}) + 1)
        Word == Letters \cup { DigitChars[i] : i \in 1..10 } \cup {"_"}
        at == FirstOf(s, 7, { s[i] : i \in 1..Len(s) } \ Word)
        sp == FirstOf(s, FirstOf(s, 1, {"@"}) + 1, Spaces)
    IN  CASE shell_type = "PowerShell" ->
                \/ PowerShellCut(s).ok
                \/ /\ StartsWith(s, <<"P","o","w","e","r","S","h","e","l","l">>)
                   /\ Len(s) >= 11 /\ s[11] \in Spaces
                   /\ \E k \in 12..Len(s) : s[k] = ">" /\ BlankFrom(s, k + 1)
                \/ /\ StartsWith(s, <<"A","z","u","r","e",":">>)
                   /\ at >= 8
                   /\ StartsWith(DropFirst(s, at - 1),
                                 <<"@","A","z","u","r","e",":","~","$">>)
                   /\ BlankFrom(s, at + 9)
          [] shell_type = "Bash" ->
                UserHostCut(s, {"$"}).ok \/ Simple("$") \/ Simple("#")
          [] shell_type = "Zsh" -> UserHostCut(s, {"%"}).ok \/ Simple("%")
          [] shell_type = "Fish" ->
                /\ FirstOf(s, 1, {"@"}) >= 2
                /\ \A i \in 1..(FirstOf(s, 1, {"@"}) - 1) : s[i] \notin Spaces
                /\ sp >= FirstOf(s, 1, {"@"}) + 2
                /\ \A i \in (FirstOf(s, 1, {"@"}) + 1)..(sp - 1) : s[i] # ":"
                /\ Closed(sp + 1)
          [] shell_type = "Cmd" ->
                /\ Len(s) >= 4
                /\ s[1] \in Letters /\ s[2] = ":" /\ s[3] \in {"\\", "/"}
                /\ Closed(4)
          [] OTHER -> FALSE

\* the length of a match of \x1b\[[0-9;]*[a-zA-Z] at the start of s, 0 when none
AnsiCodeLen(s) ==
    LET final == FirstOf(s, 3, { s[i] : i \in 1..Len(s) }
                                  \ ({ DigitChars[i] : i \in 1..10 } \cup {";"}))
    IN  IF StartsWith(s, CsiPrefix) /\ final > 0 /\ s[final] \in Letters
        THEN final ELSE 0

\* ShellHooks::strip_ansi_codes
RECURSIVE strip_ansi_codes(_)
strip_ansi_codes(text) ==
    IF text = <<>> THEN <<>>
    ELSE IF AnsiCodeLen(text) > 0
         THEN strip_ansi_codes(DropFirst(text, AnsiCodeLen(text)))
         ELSE <<text[1]>> \o strip_ansi_codes(Tail(text))

MaxHistorySize == 1000

\* ShellHooks::new.  order is the order in which the HashMap prompt_patterns
\* iterates over the shell types, fixed when the map is built.
NewHooks(shell_type, working_dir, order) ==
    [command_history |-> <<>>, current_command |-> <<>>,
     shell_type |-> shell_type, current_prompt |-> <<>>,
     working_dir |-> working_dir, max_history_size |-> MaxHistorySize,
     output_buffer |-> <<>>, order |-> order]

\* ShellHooks::parse_prompt_info
parse_prompt_info(h, prompt_line) ==
    CASE h.shell_type = "PowerShell" ->
            LET c == PowerShellCut(prompt_line)
            IN  IF c.ok
                THEN [h EXCEPT !.working_dir = SubSeq(prompt_line, c.start, c.gt - 1)]
                ELSE h
      [] h.shell_type \in {"Bash", "Zsh"} ->
            LET c == UserHostCut(prompt_line, {"$", "%"})
            IN  IF c.ok
                THEN [h EXCEPT
                        !.working_dir = SubSeq(prompt_line, c.colon + 1, c.end - 1),
                        !.current_prompt =
                            << [shell_type  |-> h.shell_type,
                                working_dir |-> SubSeq(prompt_line, c.colon + 1, c.end - 1),
                                user        |-> SubSeq(prompt_line, 1, c.at - 1),
                                hostname    |-> SubSeq(prompt_line, c.at + 1, c.colon - 1),
                                prompt_text |-> prompt_line] >>]
                ELSE h
      [] OTHER -> h

\* shell_hooks.rs:194-204: the first other shell type, in the order of the
\* map, one of whose patterns matches; "" when there is none
RECURSIVE FirstOther(_, _, _)
FirstOther(order, own, clean_line) ==
    IF order = <<>> THEN ""
    ELSE IF Head(order) # own /\ PromptMatches(Head(order), clean_line)
         THEN Head(order)
         ELSE FirstOther(Tail(order), own, clean_line)

\* the tracker after a prompt of shell_type was found, or after none was ("")
PromptFound(h, clean_line, shell_type) ==
    IF shell_type = "" THEN [h |-> h, found |-> FALSE]
    ELSE [h |-> parse_prompt_info([h EXCEPT !.shell_type = shell_type], clean_line),
          found |-> TRUE]

CheckClean(h, clean_line) ==
    PromptFound(h, clean_line,
                IF PromptMatches(h.shell_type, clean_line) THEN h.shell_type
                ELSE FirstOther(h.order, h.shell_type, clean_line))

\* ShellHooks::check_for_prompt: the tracker afterwards and the value returned
check_for_prompt(h, line) == CheckClean(h, strip_ansi_codes(line))

\* the lower-case letter of an upper-case one (str::to_lowercase on ASCII)
Lower(ch) ==
    IF ch \in Letters /\ ByteOf(ch) <= 90 THEN AsciiTable[ByteOf(ch) + 1] ELSE ch

\* the first word of split_whitespace, as to_lowercase makes it
FirstWordLower(clean_line) ==
    [i \in 1..(IF FirstOf(clean_line, 1, Spaces) = 0 THEN Len(clean_line)
               ELSE FirstOf(clean_line, 1, Spaces) - 1) |-> Lower(clean_line[i])]

PowerShellWords ==
    { <<"c","d">>, <<"l","s">>, <<"d","i","r">>, <<"p","w","d">>,
      <<"e","c","h","o">>, <<"c","a","t">>, <<"t","y","p","e">>,
      <<"m","k","d","i","r">>, <<"r","m","d","i","r">>, <<"d","e","l">>,
      <<"c","o","p","y">>, <<"m","o","v","e">> }

\* ShellHooks::looks_like_command on the trimmed line
LooksLikeCommand(shell_type, clean_line) ==
    IF \/ clean_line = <<>>
       \/ StartsWith(clean_line, <<"#">>)
       \/ StartsWith(clean_line, <<"/", "/">>)
       \/ StartsWith(clean_line, <<">">>)
    THEN FALSE
    ELSE IF shell_type = "PowerShell"
         THEN \/ Contains(FirstWordLower(clean_line), "-")
              \/ FirstWordLower(clean_line) \in PowerShellWords
         ELSE TRUE

looks_like_command(h, line) == LooksLikeCommand(h.shell_type, Trim(line))

\* ShellHooks::is_at_prompt
is_at_prompt(h) == h.current_prompt # <<>> /\ h.current_command = <<>>

\* a history that takes the command and evicts nothing
AddNoEvict(h, command) ==
    [h EXCEPT !.command_history = Append(@, command)]

\* ShellHooks::add_to_history
add_to_history(h, command) ==
    [h EXCEPT !.command_history =
        Append(IF Len(@) >= h.max_history_size THEN Tail(@) ELSE @, command)]

\* shell_hooks.rs:146-178: process_line once check_for_prompt has answered
AfterCheck(c, line, now) ==
    IF c.found
    THEN IF c.h.current_command # <<>>
         THEN add_to_history([c.h EXCEPT !.current_command = <<>>],
                             [c.h.current_command[1] EXCEPT
                                 !.duration_ms = <<now - c.h.current_command[1].timestamp>>])
         ELSE c.h
    ELSE IF /\ c.h.current_prompt # <<>>
            /\ ~StartsWith(line, <<" ">>)
            /\ looks_like_command(c.h, line)
         THEN [c.h EXCEPT !.current_command =
                  << [text |-> line, timestamp |-> now,
                      working_dir |-> c.h.working_dir, exit_code |-> <<>>,
                      duration_ms |-> <<>>, shell_type |-> c.h.shell_type] >>]
         ELSE c.h

\* ShellHooks::process_line; now is what SystemTime::now() reads
process_line(h, line, now) ==
    IF Trim(line) = <<>> THEN h
    ELSE AfterCheck(check_for_prompt(h, line), line, now)

\* shell_hooks.rs:125-130: the complete lines of the buffer, one after the other
RECURSIVE ProcessLines(_, _)
ProcessLines(h, now) ==
    IF ~Contains(h.output_buffer, LF) THEN h
    ELSE ProcessLines(
            process_line(
                [h EXCEPT !.output_buffer = DropFirst(@, FirstIndex(@, LF))],
                TrimEndMatches(
                    SubSeq(h.output_buffer, 1, FirstIndex(h.output_buffer, LF) - 1),
                    {CR}),
                now),
            now)

\* shell_hooks.rs:132-136: what is left in the buffer is tried as a prompt
CheckBuffer(h) ==
    IF Trim(h.output_buffer) # <<>> THEN check_for_prompt(h, h.output_buffer).h ELSE h

\* ShellHooks::process_output
HooksProcessOutput(h, data, now) ==
    CheckBuffer(ProcessLines([h EXCEPT !.output_buffer = @ \o data], now))

-----------------------------------------------------------------------------
(* search.rs: ScrollbackIndex, the searchable lines of one session *)

DefaultMaxLines == 5000

\* ScrollbackIndex::new
NewIndex(max_lines) == [lines |-> <<>>, buf |-> <<>>, max_lines |-> max_lines]

\* the classes of the pattern \x1B\[[0-9;?]*[ -/]*[@-~]
CsiParamChars == { DigitChars[i] : i \in 1..10 } \cup {";", "?"}
CsiIntermediateChars == { AsciiTable[i] : i \in 1..16 }
CsiFinalChars == { AsciiTable[i] : i \in 33..95 }

\* the first position from `from` on whose character is outside class
PastClass(s, from, class) ==
    IF \E i \in from..Len(s) : s[i] \notin class
    THEN CHOOSE i \in from..Len(s) :
            s[i] \notin class /\ \A j \in from..(i - 1) : s[j] \in class
    ELSE Len(s) + 1

\* the length of a match of ansi_re at the start of s, 0 when there is none.
\* The three classes are disjoint, so the greedy match is the only one.
AnsiReLen(s) ==
    LET final == PastClass(s, PastClass(s, 3, CsiParamChars), CsiIntermediateChars)
    IN  IF StartsWith(s, CsiPrefix) /\ final <= Len(s) /\ s[final] \in CsiFinalChars
        THEN final ELSE 0

\* ansi_re.replace_all(data, "")
RECURSIVE StripAnsiRe(_)
StripAnsiRe(s) ==
    IF s = <<>> THEN <<>>
    ELSE IF AnsiReLen(s) > 0 THEN StripAnsiRe(DropFirst(s, AnsiReLen(s)))
         ELSE <<s[1]>> \o StripAnsiRe(Tail(s))

\* text.replace("\r\n", "\n").replace('\r', "\n")
RECURSIVE ReplaceCrLf(_)
ReplaceCrLf(s) ==
    IF s = <<>> THEN <<>>
    ELSE IF StartsWith(s, <<CR, LF>>) THEN <<LF>> \o ReplaceCrLf(DropFirst(s, 2))
         ELSE <<s[1]>> \o ReplaceCrLf(Tail(s))

ReplaceCr(s) == [i \in 1..Len(s) |-> IF s[i] = CR THEN LF ELSE s[i]]

\* a push that drains nothing
PushNoDrain(ix) == [ix EXCEPT !.buf = <<>>, !.lines = Append(ix.lines, ix.buf)]

\* ScrollbackIndex::push_line
push_line(ix) ==
    LET pushed == Append(ix.lines, ix.buf)
    IN  [ix EXCEPT !.buf = <<>>,
                   !.lines = IF Len(pushed) > ix.max_lines
                             THEN DropFirst(pushed, Len(pushed) - ix.max_lines)
                             ELSE pushed]

\* the loop of append over the characters of the normalised text
RECURSIVE AppendChars(_, _)
AppendChars(ix, text) ==
    IF text = <<>> THEN ix
    ELSE IF Head(text) = LF THEN AppendChars(push_line(ix), Tail(text))
         ELSE AppendChars([ix EXCEPT !.buf = Append(@, Head(text))], Tail(text))

\* an append that takes a carriage return and the line feed after it for two
\* line ends
AppendCrLfApart(ix, data) == AppendChars(ix, ReplaceCr(StripAnsiRe(data)))

\* ScrollbackIndex::append
IndexAppend(ix, data) == AppendChars(ix, ReplaceCr(ReplaceCrLf(StripAnsiRe(data))))

-----------------------------------------------------------------------------
(* terminal.rs: TerminalManager, over the stores of pty.rs, shell_hooks.rs *)
(* and search.rs.  Every store is a map from session ids.                  *)

EmptyMap == [k \in {} |-> k]

Put(map, key, value) ==
    [k \in DOMAIN map \cup {key} |-> IF k = key THEN value ELSE map[k]]

Remove(map, key) == [k \in DOMAIN map \ {key} |-> map[k]]

\* a TerminalOutput message
Output(session_id, data) == [session_id |-> session_id, data |-> data]

\* the file name of a path that ends in one (Path::file_name)
FileName(path) == Split(path, "/")[Len(Split(path, "/"))]

LowerText(s) == [i \in 1..Len(s) |-> Lower(s[i])]

WithExe(name) == name \o <<".", "e", "x", "e">>

\* the names ShellHooks::detect_shell_type knows, by shell type
ShellNames(shell_type) ==
    CASE shell_type = "PowerShell" ->
            { <<"p","o","w","e","r","s","h","e","l","l">>, <<"p","w","s","h">> }
      [] shell_type = "Bash" -> { <<"b","a","s","h">> }
      [] shell_type = "Zsh"  -> { <<"z","s","h">> }
      [] shell_type = "Fish" -> { <<"f","i","s","h">> }
      [] shell_type = "Cmd"  -> { <<"c","m","d">> }

NameIs(shell_name, shell_type) ==
    \E name \in ShellNames(shell_type) : shell_name \in {name, WithExe(name)}

DetectByName(shell_name) ==
    CASE NameIs(shell_name, "PowerShell") -> "PowerShell"
      [] NameIs(shell_name, "Bash") -> "Bash"
      [] NameIs(shell_name, "Zsh")  -> "Zsh"
      [] NameIs(shell_name, "Fish") -> "Fish"
      [] NameIs(shell_name, "Cmd")  -> "Cmd"
      [] OTHER -> "Unknown"

\* ShellHooks::detect_shell_type
detect_shell_type(shell_path) == DetectByName(LowerText(FileName(shell_path)))

\* the message start_shell_process sends before it returns
WelcomeMsg(working_dir) ==
    <<"W","e","l","c","o","m","e"," ","t","o"," ","W","a","r","p"," ",
      "T","e","r","m","i","n","a","l",CR,LF,
      "W","o","r","k","i","n","g"," ","d","i","r","e","c","t","o","r","y",":"," ">>
    \o working_dir \o <<CR, LF>>

\* the session PtyManager::create_session registers
PtySession(id, size, shell, working_dir) ==
    [id |-> id, size |-> size, shell |-> shell, working_dir |-> working_dir]

\* the locks create_terminal and close_terminal take, in the order they do
CreateLocks == <<"pty_manager", "shell_hooks", "search_index", "terminals">>
CloseLocks  == <<"terminals", "shell_hooks", "search_index", "pty_manager">>

\* how many of the locks are taken before lock().unwrap() meets a poisoned
\* one and panics
RECURSIVE Acquired(_)
Acquired(locks) ==
    IF locks = <<>> \/ Head(locks) \in poisoned THEN 0
    ELSE 1 + Acquired(Tail(locks))

\* the most calls of write_to_session
MaxRequests == 3

\* the threads that call the TerminalManager at the same time
MaxThreads == 2

\* a thread that is in no call
Idle == [pc |-> "idle", op |-> "none", id |-> 0, behind |-> "none"]

\* pty.rs:33: the write handle, Some(writer) behind a tokio Mutex that no
\* task holds; holder is the request whose task holds the Mutex
NewWriter == [open |-> TRUE, holder |-> 0]

\* a call of write_to_session that was not made yet
NoTask == [pc |-> "none", data |-> <<>>, pos |-> 0]

InitSyncIdle ==
    /\ session_open = TRUE
    /\ pty_writer = NewWriter
    /\ write_tasks = [r \in 1..MaxRequests |-> NoTask]
    /\ pty_in = <<>>
    /\ close_pc = "none"
    /\ index_lock = 0
    /\ threads = [t \in 1..MaxThreads |-> Idle]
    /\ lock_calls = 0

\* no call of search yet
NoSearch == [query |-> <<>>, case_sensitive |-> FALSE, use_regex |-> FALSE,
             limit |-> 0, called |-> FALSE]

\* no call of context or tail yet
NoWindow == [op |-> "none", line_index |-> 0, before |-> 0, after |-> 0,
             count |-> 0, lines |-> <<>>, called |-> FALSE]

InitIndexIdle ==
    /\ scrollback = NewIndex(DefaultMaxLines)
    /\ appended = <<>>
    /\ asked = NoSearch
    /\ found = <<>>
    /\ shown = NoWindow

\* an operation of the TerminalManager called with a session id
Call(op, id) == [op |-> op, id |-> id]

NoCall == Call("none", 0)

\* TerminalManager::new: no session, and nothing sent
InitOrchIdle ==
    /\ terminals = EmptyMap
    /\ shell_hooks = EmptyMap
    /\ search_index = EmptyMap
    /\ processes = EmptyMap
    /\ poisoned = {}
    /\ channel = <<>>
    /\ events = <<>>
    /\ next_id = 1
    /\ closed = {}
    /\ outcome = "none"
    /\ call = NoCall

\* a character of two bytes in UTF-8, U+00E9
EACUTE == "EACUTE"

\* U+0130, capital I with a dot above, and U+0307, the combining dot above:
\* two bytes each
IDOT == "IDOT"
COMBDOT == "COMBDOT"

Utf8Len(ch) == IF ch \in {EACUTE, IDOT, COMBDOT} THEN 2 ELSE 1

RECURSIVE ByteLen(_)
ByteLen(s) == IF s = <<>> THEN 0 ELSE Utf8Len(Head(s)) + ByteLen(Tail(s))

\* str::is_char_boundary: the slice current_line[..cursor_pos] panics
\* where it is false
is_char_boundary(s, index) ==
    \E k \in 0..Len(s) : ByteLen(SubSeq(s, 1, k)) = index

-----------------------------------------------------------------------------
(* search.rs: ScrollbackIndex::search.  Offsets are byte offsets, as       *)
(* str::find and Match::start give them.                                    *)

\* String::to_lowercase: one character can become two (U+0130 becomes i
\* followed by U+0307), so the text can change its length in bytes
LowerOf(ch) == IF ch = IDOT THEN <<"i", COMBDOT>> ELSE <<Lower(ch)>>

RECURSIVE to_lowercase(_)
to_lowercase(s) ==
    IF s = <<>> THEN <<>> ELSE LowerOf(Head(s)) \o to_lowercase(Tail(s))

ScrollMatch(line_index, start, end, line) ==
    [line_index |-> line_index, start |-> start, end |-> end,
     line |-> line, line_content |-> line]

\* search.rs:76,97: the text a line is searched in
Hay(line, case_sensitive) == IF case_sensitive THEN line ELSE to_lowercase(line)

\* the first character position from `from` on where needle occurs in hay, 0
\* when there is none.  Both are valid UTF-8, so an occurrence of the bytes
\* of needle starts and ends on a character of hay.
FindFrom(hay, needle, from) ==
    IF \E p \in from..(Len(hay) - Len(needle) + 1) :
          SubSeq(hay, p, p + Len(needle) - 1) = needle
    THEN CHOOSE p \in from..(Len(hay) - Len(needle) + 1) :
          /\ SubSeq(hay, p, p + Len(needle) - 1) = needle
          /\ \A q \in from..(p - 1) : SubSeq(hay, q, q + Len(needle) - 1) # needle
    ELSE 0

\* the state of the loops of search: the matches so far, and whether the
\* function has returned
Scan(results, returned) == [results |-> results, returned |-> returned]

\* the match at character p of hay, as search pushes it
MatchAt(hay, needle, p, i, line) ==
    ScrollMatch(i, ByteLen(SubSeq(hay, 1, p - 1)),
                ByteLen(SubSeq(hay, 1, p - 1)) + ByteLen(needle), line)

\* search.rs:99-109 and 82-91: the matches of one line, pushed one by one;
\* the limit is compared after the push
RECURSIVE ScanLine(_, _, _, _, _, _, _)
ScanPushed(pushed, hay, needle, p, i, line, limit) ==
    IF Len(pushed) >= limit THEN Scan(pushed, TRUE)
    ELSE ScanLine(pushed, hay, needle, p + Len(needle), i, line, limit)

ScanFound(results, hay, needle, p, i, line, limit) ==
    IF p = 0 THEN Scan(results, FALSE)
    ELSE ScanPushed(Append(results, MatchAt(hay, needle, p, i, line)),
                    hay, needle, p, i, line, limit)

ScanLine(results, hay, needle, from, i, line, limit) ==
    ScanFound(results, hay, needle, FindFrom(hay, needle, from), i, line, limit)

\* search.rs:75,96: the loop over the stored lines, i zero-based
RECURSIVE ScanLines(_, _, _, _, _, _)
ScanNext(one, lines, needle, case_sensitive, i, limit) ==
    IF one.returned THEN one.results
    ELSE ScanLines(one.results, lines, needle, case_sensitive, i + 1, limit)

ScanLines(results, lines, needle, case_sensitive, i, limit) ==
    IF i >= Len(lines) THEN results
    ELSE ScanNext(ScanLine(results, Hay(lines[i + 1], case_sensitive), needle, 1,
                           i, lines[i + 1], limit),
                  lines, needle, case_sensitive, i, limit)

\* the characters with a meaning in the syntax of the regex crate
RegexMeta ==
    {"\\", ".", "+", "*", "?", "(", ")", "|", "[", "]", "{", "}", "^", "$", "#", "&", "-", "~"}

IsLiteral(query) == \A k \in 1..Len(query) : query[k] \notin RegexMeta

\* Regex::new(query), for the patterns tried: text without a character of
\* the syntax compiles to a pattern that matches this text, and an opening
\* parenthesis alone is a syntax error
RegexNew(query) == IF IsLiteral(query) THEN <<query>> ELSE <<>>

\* the text a compiled literal pattern finds in hay: with (?i) it finds the
\* text whatever the case of its letters, and hay is in lower case then
RegexNeedle(pattern, case_sensitive) ==
    IF case_sensitive THEN pattern ELSE [k \in 1..Len(pattern) |-> Lower(pattern[k])]

\* ScrollbackIndex::search
search(ix, query, case_sensitive, use_regex, limit) ==
    IF query = <<>> THEN <<>>
    ELSE IF use_regex
         THEN IF RegexNew(query) = <<>> THEN <<>>
              ELSE ScanLines(<<>>, ix.lines,
                             RegexNeedle(RegexNew(query)[1], case_sensitive),
                             case_sensitive, 0, limit)
         ELSE ScanLines(<<>>, ix.lines,
                        IF case_sensitive THEN query ELSE to_lowercase(query),
                        case_sensitive, 0, limit)

\* ScrollbackIndex::context: the lines from line_index - before, not below 0,
\* up to line_index + after, not beyond the last line, with their indexes
context(ix, line_index, n_before, n_after) ==
    LET start == IF line_index >= n_before THEN line_index - n_before ELSE 0
        end   == Min(line_index + n_after + 1, Len(ix.lines))
    IN  IF start >= end THEN <<>>
        ELSE [k \in 1..(end - start) |->
                 [line_index |-> start + k - 1, line |-> ix.lines[start + k]]]

\* ScrollbackIndex::tail: the last count lines
tail(ix, count) ==
    LET len   == Len(ix.lines)
        start == IF len >= count THEN len - count ELSE 0
    IN  SubSeq(ix.lines, start + 1, len)

\* TerminalManager::process_output on the three stores it feeds; it is the
\* only code that feeds them
process_output(st, output, now, checks) ==
    [shell_hooks |->
        IF output.session_id \in DOMAIN st.shell_hooks
        THEN Put(st.shell_hooks, output.session_id,
                 HooksProcessOutput(st.shell_hooks[output.session_id],
                                    output.data, now))
        ELSE st.shell_hooks,
     search_index |->
        IF output.session_id \in DOMAIN st.search_index
        THEN Put(st.search_index, output.session_id,
                 IndexAppend(st.search_index[output.session_id], output.data))
        ELSE st.search_index,
     terminals |->
        IF output.session_id \in DOMAIN st.terminals
        THEN Put(st.terminals, output.session_id,
                 TerminalProcessOutput(st.terminals[output.session_id],
                                       output.data, checks).t)
        ELSE st.terminals]

-----------------------------------------------------------------------------
(* A decoder fed a stream in chunks.  The reader cuts the stream wherever  *)
(* a read happens to end (pty.rs:218-225), so every cut is possible.        *)

Seq2(a, b) == a \o b

\* parameter strings and final bytes of the control sequences tried
CsiParams ==
    { <<>>, <<"2">>, <<"9">>, <<"1", ";", "5">>, <<";", "5">>,
      <<"?", "2", "5">>, <<"?", "7">>, <<"3", "1">> }

CsiFinals == {"H", "J", "K", "m", "A", "h", "z", "~", "@"}

CsiSequences == { CsiPrefix \o ps \o <<f>> : ps \in CsiParams, f \in CsiFinals }

\* the two terminators of a string sequence: BEL and ESC backslash
Terminators == { <<BEL>>, <<ESC, "\\">> }

OscBodies ==
    { <<"0", ";", "t">>, <<"2", ";", "t", "u">>, <<"1", ";", "t">>,
      <<"8", ";", ";", "u">>, <<"9", ";", "x">>, <<"t">> }

OscSequences == { OscPrefix \o b \o t : b \in OscBodies, t \in Terminators }

StringBodies == { <<"x">>, <<"q", "#">> }

StringIntroducers == {"P", "^", "_"}

StringSequences ==
    { <<ESC, i>> \o b \o t :
        i \in StringIntroducers, b \in StringBodies, t \in Terminators }

EscSequences == CsiSequences \cup OscSequences \cup StringSequences

TextTokens == { <<"a">>, <<"h", "i">> }

ControlTokens == { <<CR>>, <<LF>>, <<BEL>>, <<TAB>>, <<BS>> }

SequenceTokens ==
    { <<ESC, "[", "H">>, <<ESC, "[", "2", "J">>, <<ESC, "[", "3", "1", "m">>,
      <<ESC, "[", "5", "~">>, <<ESC, "[", "2", "z">>, <<ESC, "[", "?", "7", "h">>,
      <<ESC, "[", "9", "J">>,
      <<ESC, "]", "0", ";", "t", BEL>>, <<ESC, "]", "0", ";", "t", ESC, "\\">>,
      <<ESC, "P", "x", BEL>>, <<ESC, "P", "x", ESC, "\\">>,
      <<ESC, "^", "x", BEL>>, <<ESC, "_", "x", ESC, "\\">> }

MixTokens == TextTokens \cup ControlTokens \cup SequenceTokens

\* an escape followed by a byte that selects no family of sequences (save
\* cursor, keypad mode, reset) and the two single shifts
NoFamilyTokens ==
    { <<ESC, "7">>, <<ESC, "=">>, <<ESC, "c">>, <<ESC, "N">>, <<ESC, "O">> }

\* the text that follows them: two words, and text that opens with a bracket
FamilyTexts == TextTokens \cup { <<"[", "H", "i">> }

FamilyStreams == { Seq2(s, t) : s \in NoFamilyTokens, t \in FamilyTexts }

\* the streams tried: one escape sequence, or two tokens one after the other
Streams ==
    EscSequences \cup MixTokens \cup { Seq2(a, b) : a, b \in MixTokens } \cup
    FamilyStreams

\* the most chunks a stream is cut into
MaxChunks == 2

RECURSIVE Concat(_)
Concat(ss) == IF ss = <<>> THEN <<>> ELSE Head(ss) \o Concat(Tail(ss))

Fed == Concat(chunks)

InitDecoder ==
    /\ stream \in Streams
    /\ parser = NewParser
    /\ ops = <<>>
    /\ chunks = <<>>

\* Terminal::process_output calls parse with the next chunk of the stream.
Decoded(chunk, r) ==
    /\ parser' = r.p
    /\ ops' = ops \o r.out
    /\ chunks' = Append(chunks, chunk)
    /\ UNCHANGED stream

Decode(chunk) == Decoded(chunk, parse(parser, chunk))

DecodeChunk ==
    /\ Len(chunks) < MaxChunks
    /\ \E k \in 1..(Len(stream) - Len(Fed)) :
          Decode(SubSeq(stream, Len(Fed) + 1, Len(Fed) + k))
    /\ UNCHANGED <<termVars, hookVars, orchVars, idxVars, syncVars>>

InitDecoderIdle ==
    /\ stream = <<>>
    /\ parser = NewParser
    /\ ops = <<>>
    /\ chunks = <<>>

-----------------------------------------------------------------------------
(* One Terminal: output chunks are decoded and applied, and it is resized. *)

\* the largest number of rows and of columns tried
MaxDim == 2

\* the most operations applied to the terminal
MaxSteps == 3

Csi(body) == CsiPrefix \o body

\* a number in decimal
RECURSIVE Decimal(_)
Decimal(n) ==
    IF n < 10 THEN <<DigitChars[n + 1]>>
    ELSE Append(Decimal(n \div 10), DigitChars[(n % 10) + 1])

\* the output chunks tried: text, the plain control characters, cursor
\* moves, erases, scroll-up and graphics modes
\* text as wide as a row of k columns
RowText(k) == SubSeq(<<"b", "c", "d", "e", "f", "g">>, 1, k)

\* texts that fill a row of two columns or more, and texts one character longer
TextChunks == { RowText(k) : k \in 2..(MaxDim + 1) }

\* red text followed by a reset, in one chunk
RedHello ==
    Csi(<<"3", "1", "m">>) \o <<"H", "e", "l", "l", "o">> \o Csi(<<"0", "m">>)

\* a graphics-mode sequence cut in two by the end of a read, with text after it
RedCutHead == <<ESC, "[", "3">>
RedCutTail == <<"1", "m", "a">>

\* erase the screen, then cursor position without parameters
ClearHome == Csi(<<"2", "J">>) \o Csi(<<"H">>)

\* cursor moves: the direction of a final byte, and the parameters tried
Move(final, dir, n) ==
    [data |-> Csi((IF n = 1 THEN <<>> ELSE Decimal(n)) \o <<final>>),
     dir |-> dir, n |-> n]

CursorMoves ==
    { Move("A", "up", 1), Move("B", "down", 1), Move("C", "right", 1),
      Move("D", "left", 1), Move("B", "down", 40000), Move("B", "down", 32767),
      Move("C", "right", 65535) }

\* ESC [ n S, the parameter left out for n = 1
ScrollUpBy(n) == Csi((IF n = 1 THEN <<>> ELSE Decimal(n)) \o <<"S">>)

\* the line counts tried for a scroll: none, one, MaxDim and more than MaxDim
ScrollCounts == {0, 1, MaxDim, MaxDim + 1}

TermChunks ==
    TextChunks \cup { mv.data : mv \in CursorMoves } \cup
    { ScrollUpBy(n) : n \in ScrollCounts } \cup
    { RedHello, RedCutHead, RedCutTail, ClearHome,
      <<"a">>, <<CR>>, <<LF>>, <<BS>>, <<TAB>>, <<BEL>>,
      Csi(<<"H">>), Csi(<<"2", ";", "2", "H">>),
      Csi(<<"2", "J">>), Csi(<<"K">>), Csi(<<"3", "1", "m">>), Csi(<<"0", "m">>),
      Csi(<<"1", "K">>), Csi(<<"J">>), Csi(<<"1", "J">>) }

NoOp == [op |-> "none", data |-> <<>>, cols |-> 0, rows |-> 0]

InitTerminalIdle ==
    /\ term = NewTerminal(TerminalSize(1, 1))
    /\ before = term
    /\ overflow_checks = FALSE
    /\ crashed = FALSE
    /\ last = NoOp
    /\ steps = 0

\* Terminal::new with the size create_terminal was asked for, which nothing
\* validates (commands.rs:17-36): a size of no row or no column included
InitTerminal ==
    /\ \E cols \in 0..MaxDim, rows \in 0..MaxDim :
          term = NewTerminal(TerminalSize(cols, rows))
    /\ before = term
    /\ overflow_checks \in BOOLEAN
    /\ crashed = FALSE
    /\ last = NoOp
    /\ steps = 0

\* the terminal an operation leaves, and whether it panicked
Applied(r, op) ==
    /\ term' = r.t
    /\ before' = term
    /\ crashed' = r.panic
    /\ last' = op

\* Terminal::process_output with one chunk
TermOutput ==
    /\ ~crashed
    /\ steps < MaxSteps
    /\ \E data \in TermChunks :
          Applied(TerminalProcessOutput(term, data, overflow_checks),
                  [op |-> "process_output", data |-> data, cols |-> 0, rows |-> 0])
    /\ steps' = steps + 1
    /\ UNCHANGED <<overflow_checks, decVars, hookVars, orchVars, idxVars, syncVars>>

\* Terminal::resize to any size the caller asks for
TermResize ==
    /\ ~crashed
    /\ steps < MaxSteps
    /\ \E cols \in 0..MaxDim, rows \in 0..MaxDim :
          Applied(TerminalResize(term, TerminalSize(cols, rows), overflow_checks),
                  [op |-> "resize", data |-> <<>>, cols |-> cols, rows |-> rows])
    /\ steps' = steps + 1
    /\ UNCHANGED <<overflow_checks, decVars, hookVars, orchVars, idxVars, syncVars>>

-----------------------------------------------------------------------------
(* One tracker fed the output of a shell in chunks. *)

\* the most chunks fed to the tracker
MaxFeeds == 3

Prompt == <<"u","s","e","r","@","h","o","s","t",":","~","$"," ">>

\* the chunks tried: prompts of three shells, with and without a line end,
\* one of them coloured, and the echo of a command
HookChunks ==
    { Prompt, Prompt \o <<LF>>, <<"l","s",LF>>, <<"l","s">>, <<CR, LF>>,
      <<ESC,"[","0","m","$"," ",LF>>, <<"P","S"," ","/",">"," ">>,
      <<"u","@","h",":","~","%"," ",LF>> }

\* two of the orders the map of patterns may iterate in
HashOrders ==
    { <<"PowerShell", "Bash", "Zsh", "Fish", "Cmd">>,
      <<"Cmd", "Fish", "Zsh", "Bash", "PowerShell">> }

InitHooksIdle ==
    /\ hooks = NewHooks("Unknown", <<>>, <<>>)
    /\ clock = 0
    /\ fed = <<>>

\* ShellHooks::process_output with one chunk; the clock may have advanced
HooksOutput ==
    /\ Len(fed) < MaxFeeds
    /\ \E data \in HookChunks, elapsed \in 0..1 :
          /\ hooks' = HooksProcessOutput(hooks, data, clock + elapsed)
          /\ clock' = clock + elapsed
          /\ fed' = Append(fed, data)
    /\ UNCHANGED <<decVars, termVars, orchVars, idxVars, syncVars>>

InitTerm ==
    /\ InitTerminal
    /\ InitDecoderIdle
    /\ InitHooksIdle
    /\ InitOrchIdle
    /\ InitIndexIdle
    /\ InitSyncIdle

NextTerminal == TermOutput \/ TermResize

SpecTerminal == InitTerm /\ [][NextTerminal]_vars

InitDec ==
    /\ InitDecoder
    /\ InitTerminalIdle
    /\ InitHooksIdle
    /\ InitOrchIdle
    /\ InitIndexIdle
    /\ InitSyncIdle

NextDecoder == DecodeChunk

SpecDecoder == InitDec /\ [][NextDecoder]_vars

\* a session of a POSIX shell: the tracker is created for bash or zsh
InitHooks ==
    /\ \E shell_type \in {"Bash", "Zsh"}, order \in HashOrders :
          hooks = NewHooks(shell_type, <<"/">>, order)
    /\ clock = 0
    /\ fed = <<>>
    /\ InitDecoderIdle
    /\ InitTerminalIdle
    /\ InitOrchIdle
    /\ InitIndexIdle
    /\ InitSyncIdle

NextHooks == HooksOutput

SpecHooks == InitHooks /\ [][NextHooks]_vars

-----------------------------------------------------------------------------
(* The orchestrator: sessions are opened, resized, written to, completed   *)
(* on and closed through the TerminalManager (commands.rs takes its tokio  *)
(* lock around every call, so the calls do not overlap), while the reader  *)
(* threads send output and the task of lib.rs receives it.                 *)

\* the most sessions opened
MaxSessions == 2

\* the most chunks the reader threads send
MaxOutputs == 2

\* the ids a caller can name: those handed out, and 0 for one that never was
KnownIds == 0..(next_id - 1)

\* the size every session is opened with, and the sizes it is resized to
CreateSize == TerminalSize(2, 2)
ResizeSizes == { TerminalSize(0, 0) }

\* the order the map of prompt patterns iterates in
OrchOrder == <<"PowerShell", "Bash", "Zsh", "Fish", "Cmd">>

\* /bin/bash, the shell of a session opened without one (terminal.rs:290)
DefaultShell == <<"/","b","i","n","/","b","a","s","h">>

WorkDir == <<"/">>

\* what the shell prints: the echo of a command, and a prompt
ReaderChunks == { <<"l","s",CR,LF>>, Prompt }

\* the lines completion is asked for, and the cursor positions
TabLines == { <<EACUTE>> }
MaxCursor == 1

\* create_terminal that took n of its locks; spawned: the pty was opened
\* and the shell started
Created(id, n, spawned, order) ==
    /\ processes' = IF n >= 1 /\ spawned
                    THEN Put(processes, id,
                             PtySession(id, CreateSize, DefaultShell, WorkDir))
                    ELSE processes
    /\ channel' = IF n >= 1 /\ spawned
                  THEN Append(channel, Output(id, WelcomeMsg(WorkDir)))
                  ELSE channel
    /\ next_id' = IF n >= 1 /\ spawned THEN next_id + 1 ELSE next_id
    /\ shell_hooks' = IF n >= 2 /\ spawned
                      THEN Put(shell_hooks, id,
                               NewHooks(detect_shell_type(DefaultShell), WorkDir, order))
                      ELSE shell_hooks
    /\ search_index' = IF n >= 3 /\ spawned
                       THEN Put(search_index, id, NewIndex(DefaultMaxLines))
                       ELSE search_index
    /\ terminals' = IF n >= 4 /\ spawned
                    THEN Put(terminals, id, NewTerminal(CreateSize))
                    ELSE terminals
    /\ outcome' = IF n = 0 THEN "Panic"
                  ELSE IF ~spawned THEN "Err"
                  ELSE IF n < 4 THEN "Panic" ELSE "Ok"

\* TerminalManager::create_terminal
CreateTerminal ==
    /\ next_id <= MaxSessions
    /\ \E spawned \in BOOLEAN :
          Created(next_id, Acquired(CreateLocks), spawned, OrchOrder)
    /\ call' = Call("create", next_id)
    /\ UNCHANGED <<poisoned, events, closed>>
    /\ UNCHANGED <<decVars, termVars, hookVars, idxVars, syncVars>>

\* pty.rs:150-157: close_session of a session it has.  The session is taken
\* out of processes and block_on is called to take the guard of the write
\* handle.  close_terminal is called by the async command of commands.rs:73-82,
\* on a thread of the runtime that is driving that task, and block_on panics
\* on such a thread ("Cannot start a runtime from within a runtime"); the
\* panic unwinds through the guard of pty_manager and poisons it.
ClosedSession(id) ==
    /\ processes' = Remove(processes, id)
    /\ poisoned' = poisoned \cup {"pty_manager"}
    /\ outcome' = "Panic"
    /\ UNCHANGED closed

\* pty.rs:150,158: close_session of a session it does not have returns Ok
ClosedNothing(id) ==
    /\ outcome' = "Ok"
    /\ closed' = closed \cup {id}
    /\ UNCHANGED <<processes, poisoned>>

\* close_terminal that took n of its locks
Closed(id, n) ==
    /\ terminals' = IF n >= 1 THEN Remove(terminals, id) ELSE terminals
    /\ shell_hooks' = IF n >= 2 THEN Remove(shell_hooks, id) ELSE shell_hooks
    /\ search_index' = IF n >= 3 THEN Remove(search_index, id) ELSE search_index
    /\ IF n < 4
       THEN /\ outcome' = "Panic"
            /\ UNCHANGED <<processes, poisoned, closed>>
       ELSE IF id \in DOMAIN processes THEN ClosedSession(id)
       ELSE ClosedNothing(id)

\* TerminalManager::close_terminal
CloseTerminal ==
    /\ \E id \in KnownIds :
          /\ Closed(id, Acquired(CloseLocks))
          /\ call' = Call("close", id)
    /\ UNCHANGED <<channel, events, next_id>>
    /\ UNCHANGED <<decVars, termVars, hookVars, idxVars, syncVars>>

\* PtyManager::resize_session
ResizedSession(id, size) ==
    IF "pty_manager" \in poisoned
    THEN /\ outcome' = "Panic"
         /\ UNCHANGED processes
    ELSE IF id \in DOMAIN processes
    THEN /\ processes' = [processes EXCEPT ![id].size = size]
         /\ outcome' = "Ok"
    ELSE /\ outcome' = "Err"
         /\ UNCHANGED processes

\* resize_terminal of a session that has a terminal; r is what
\* Terminal::resize made of it
ResizedTerminal(id, size, r) ==
    /\ terminals' = [terminals EXCEPT ![id] = r.t]
    /\ IF r.panic
       THEN /\ poisoned' = poisoned \cup {"terminals"}
            /\ outcome' = "Panic"
            /\ UNCHANGED processes
       ELSE /\ ResizedSession(id, size)
            /\ UNCHANGED poisoned

Resized(id, size) ==
    IF "terminals" \in poisoned
    THEN /\ outcome' = "Panic"
         /\ UNCHANGED <<terminals, processes, poisoned>>
    ELSE IF id \in DOMAIN terminals
    THEN ResizedTerminal(id, size, TerminalResize(terminals[id], size, overflow_checks))
    ELSE /\ ResizedSession(id, size)
         /\ UNCHANGED <<terminals, poisoned>>

\* TerminalManager::resize_terminal
ResizeTerminal ==
    /\ \E id \in KnownIds, size \in ResizeSizes :
          /\ Resized(id, size)
          /\ call' = Call("resize", id)
    /\ UNCHANGED <<shell_hooks, search_index, channel, events, next_id, closed>>
    /\ UNCHANGED <<decVars, termVars, hookVars, idxVars, syncVars>>

\* TerminalManager::write_to_terminal: the bytes go to the shell
WriteToTerminal ==
    /\ \E id \in KnownIds :
          /\ outcome' = IF "pty_manager" \in poisoned THEN "Panic"
                        ELSE IF id \in DOMAIN processes THEN "Ok" ELSE "Err"
          /\ call' = Call("write", id)
    /\ UNCHANGED <<terminals, shell_hooks, search_index, processes, poisoned,
                   channel, events, next_id, closed>>
    /\ UNCHANGED <<decVars, termVars, hookVars, idxVars, syncVars>>

\* handle_tab_completion: the slice is taken while the lock of shell_hooks
\* is held, and only when the session has hooks
Completed(id, sliced) ==
    IF "shell_hooks" \in poisoned
    THEN /\ outcome' = "Panic"
         /\ UNCHANGED poisoned
    ELSE IF id \in DOMAIN shell_hooks /\ ~sliced
    THEN /\ poisoned' = poisoned \cup {"shell_hooks"}
         /\ outcome' = "Panic"
    ELSE /\ outcome' = "Ok"
         /\ UNCHANGED poisoned

\* TerminalManager::handle_tab_completion
HandleTabCompletion ==
    /\ \E id \in KnownIds, current_line \in TabLines, cursor_pos \in 0..MaxCursor :
          /\ Completed(id, is_char_boundary(current_line, cursor_pos))
          /\ call' = Call("complete", id)
    /\ UNCHANGED <<terminals, shell_hooks, search_index, processes,
                   channel, events, next_id, closed>>
    /\ UNCHANGED <<decVars, termVars, hookVars, idxVars, syncVars>>

\* the chunks of the reader threads among the messages sent so far
ReaderSent ==
    Len(SelectSeq(events \o channel, LAMBDA o : o.data \in ReaderChunks))

\* pty.rs:220-225: the reader thread of a session whose shell was started
\* read n > 0 bytes and sends them.  The thread outlives close_terminal
\* until its read fails; one that has ended is one that sends no more.
ReaderSend ==
    /\ ReaderSent < MaxOutputs
    /\ \E id \in 1..(next_id - 1), data \in ReaderChunks :
          channel' = Append(channel, Output(id, data))
    /\ UNCHANGED <<terminals, shell_hooks, search_index, processes, poisoned,
                   events, next_id, closed, outcome, call>>
    /\ UNCHANGED <<decVars, termVars, hookVars, idxVars, syncVars>>

\* lib.rs:98-107: one turn of the receiving loop; it emits the event and
\* does nothing else with the message
Receive ==
    /\ channel # <<>>
    /\ events' = Append(events, Head(channel))
    /\ channel' = Tail(channel)
    /\ UNCHANGED <<terminals, shell_hooks, search_index, processes, poisoned,
                   next_id, closed, outcome, call>>
    /\ UNCHANGED <<decVars, termVars, hookVars, idxVars, syncVars>>

InitOrch ==
    /\ InitOrchIdle
    /\ overflow_checks \in BOOLEAN
    /\ term = NewTerminal(TerminalSize(1, 1))
    /\ before = term
    /\ crashed = FALSE
    /\ last = NoOp
    /\ steps = 0
    /\ InitDecoderIdle
    /\ InitHooksIdle
    /\ InitIndexIdle
    /\ InitSyncIdle

NextOrch ==
    \/ CreateTerminal
    \/ CloseTerminal
    \/ ResizeTerminal
    \/ WriteToTerminal
    \/ HandleTabCompletion
    \/ ReaderSend
    \/ Receive

SpecOrch == InitOrch /\ [][NextOrch]_vars

-----------------------------------------------------------------------------
(* One ScrollbackIndex: output is appended to it and it is searched, as    *)
(* SearchIndexManager::append_output and ::search do for a session.  The   *)
(* number of lines it keeps is a parameter of ScrollbackIndex::new.        *)

\* the largest max_lines tried
MaxKept == 2

\* the most chunks appended
MaxAppends == 3

\* the largest limit a search is given
MaxLimit == 3

\* the chunks tried: three lines with their line feed, one of them with a
\* letter whose lower case is longer in bytes, text without a line end, and
\* a line that ends in CR LF
IndexChunks ==
    { <<"f", "o", "o", " ", "b", "a", "r", LF>>,
      <<"B", "A", "R", " ", "f", "o", "o", LF>>,
      <<IDOT, "o", LF>>,
      <<"b">>,
      <<"c", CR, LF>>,
      <<"c", CR>>,
      <<LF>>,
      <<ESC, "[">> }

\* the queries tried: two words, the empty query, and an opening parenthesis
Queries == { <<"b", "a", "r">>, <<"o">>, <<>>, <<"(">> }

InitIndex ==
    /\ \E max_lines \in 0..MaxKept : scrollback = NewIndex(max_lines)
    /\ appended = <<>>
    /\ asked = NoSearch
    /\ found = <<>>
    /\ shown = NoWindow

\* SearchIndexManager::append_output for the session of the index
AppendOutput ==
    /\ ~asked.called
    /\ Len(appended) < MaxAppends
    /\ \E data \in IndexChunks :
          /\ scrollback' = IndexAppend(scrollback, data)
          /\ appended' = Append(appended, data)
    /\ UNCHANGED <<asked, found, shown>>
    /\ UNCHANGED <<decVars, termVars, hookVars, orchVars, syncVars>>

\* SearchIndexManager::search for the session of the index.  It reads the
\* index and leaves it as it is, so one search, after the appends, shows
\* what any search returns.
Search ==
    /\ ~asked.called
    /\ \E query \in Queries, case_sensitive \in BOOLEAN, use_regex \in BOOLEAN,
          limit \in 0..MaxLimit :
          /\ found' = search(scrollback, query, case_sensitive, use_regex, limit)
          /\ asked' = [query |-> query, case_sensitive |-> case_sensitive,
                       use_regex |-> use_regex, limit |-> limit, called |-> TRUE]
    /\ UNCHANGED <<scrollback, appended, shown>>
    /\ UNCHANGED <<decVars, termVars, hookVars, orchVars, syncVars>>

InitIdx ==
    /\ InitIndex
    /\ InitDecoderIdle
    /\ InitTerminalIdle
    /\ InitHooksIdle
    /\ InitOrchIdle
    /\ InitSyncIdle

NextIndex == AppendOutput \/ Search

SpecIndex == InitIdx /\ [][NextIndex]_vars

-----------------------------------------------------------------------------
(* One ScrollbackIndex that is appended to before and after it is searched, *)
(* and then asked for the context of a line or for its tail.               *)

\* the most chunks appended
MaxContextAppends == 3

\* the largest count asked of tail, and the largest before and after asked
\* of context
MaxCount == 3
MaxAround == 1

\* the chunks tried: two whole lines, the start of a line, text that ends
\* with a carriage return, and text that ends with CR LF
ContextChunks ==
    { <<"f", "o", "o", LF>>, <<"o", "n", LF>>, <<"b">>, <<"c", CR>>,
      <<"c", CR, LF>> }

ContextQueries == { <<"o">>, <<"c">>, <<"b">> }

InitContext ==
    /\ \E max_lines \in 1..MaxKept : scrollback = NewIndex(max_lines)
    /\ appended = <<>>
    /\ asked = NoSearch
    /\ found = <<>>
    /\ shown = NoWindow
    /\ InitDecoderIdle
    /\ InitTerminalIdle
    /\ InitHooksIdle
    /\ InitOrchIdle
    /\ InitSyncIdle

\* SearchIndexManager::append_output, before or after the search
ContextAppend ==
    /\ ~shown.called
    /\ Len(appended) < MaxContextAppends
    /\ \E data \in ContextChunks :
          /\ scrollback' = IndexAppend(scrollback, data)
          /\ appended' = Append(appended, data)
    /\ UNCHANGED <<asked, found, shown>>
    /\ UNCHANGED <<decVars, termVars, hookVars, orchVars, syncVars>>

\* SearchIndexManager::search for a plain query
ContextSearch ==
    /\ ~asked.called
    /\ ~shown.called
    /\ \E query \in ContextQueries :
          /\ found' = search(scrollback, query, TRUE, FALSE, MaxLimit)
          /\ asked' = [query |-> query, case_sensitive |-> TRUE,
                       use_regex |-> FALSE, limit |-> MaxLimit, called |-> TRUE]
    /\ UNCHANGED <<scrollback, appended, shown>>
    /\ UNCHANGED <<decVars, termVars, hookVars, orchVars, syncVars>>

\* SearchIndexManager::context for any line index the caller names, those
\* beyond the last line included
ShowContext ==
    /\ ~shown.called
    /\ \E line_index \in 0..(Len(scrollback.lines) + 1),
          n_before \in 0..MaxAround, n_after \in 0..MaxAround :
          shown' = [op |-> "context", line_index |-> line_index,
                    before |-> n_before, after |-> n_after, count |-> 0,
                    lines |-> context(scrollback, line_index, n_before, n_after),
                    called |-> TRUE]
    /\ UNCHANGED <<scrollback, appended, asked, found>>
    /\ UNCHANGED <<decVars, termVars, hookVars, orchVars, syncVars>>

\* SearchIndexManager::tail
ShowTail ==
    /\ ~shown.called
    /\ \E count \in 0..MaxCount :
          shown' = [op |-> "tail", line_index |-> 0, before |-> 0, after |-> 0,
                    count |-> count, lines |-> tail(scrollback, count),
                    called |-> TRUE]
    /\ UNCHANGED <<scrollback, appended, asked, found>>
    /\ UNCHANGED <<decVars, termVars, hookVars, orchVars, syncVars>>

NextContext == ContextAppend \/ ContextSearch \/ ShowContext \/ ShowTail

SpecContext == InitContext /\ [][NextContext]_vars

-----------------------------------------------------------------------------
(* One Terminal that is sent graphics-mode sequences: the parameters are   *)
(* decoded by parse_csi_sequence and applied by apply_graphics_mode.       *)

\* the most graphics-mode sequences sent
MaxModes == 2

RECURSIVE JoinParams(_)
JoinParams(params) ==
    IF params = <<>> THEN <<>>
    ELSE IF Len(params) = 1 THEN Decimal(params[1])
    ELSE Decimal(params[1]) \o <<";">> \o JoinParams(Tail(params))

\* the graphics-mode sequence with these parameters
Sgr(params) == Csi(JoinParams(params) \o <<"m">>)

\* the parameters of the table
TableParams ==
    {0, 1, 3, 4, 7, 9, 22, 23, 24, 27, 29, 39, 49} \cup (30..37) \cup (40..47)

\* parameters outside the table, two of them too large for a byte
OtherParams == {2, 5, 8, 21, 38, 48, 50, 90, 107, 255, 256, 300}

\* the parameter lists tried: every parameter alone, and lists of two and three
ParamLists ==
    { <<p>> : p \in TableParams \cup OtherParams } \cup
    { <<>>, <<1, 31>>, <<31, 0>>, <<0, 44>>, <<1, 22>>, <<38, 5, 1>>, <<4, 300, 7>> }

InitGraphics ==
    /\ term = NewTerminal(TerminalSize(1, 1))
    /\ before = term
    /\ overflow_checks = FALSE
    /\ crashed = FALSE
    /\ last = NoOp
    /\ steps = 0

\* Terminal::process_output with one graphics-mode sequence
GraphicsOutput ==
    /\ steps < MaxModes
    /\ \E params \in ParamLists :
          Applied(TerminalProcessOutput(term, Sgr(params), overflow_checks),
                  [op |-> "graphics", data |-> params, cols |-> 0, rows |-> 0])
    /\ steps' = steps + 1
    /\ UNCHANGED <<overflow_checks, decVars, hookVars, orchVars, idxVars, syncVars>>

InitGfx ==
    /\ InitGraphics
    /\ InitDecoderIdle
    /\ InitHooksIdle
    /\ InitOrchIdle
    /\ InitIndexIdle
    /\ InitSyncIdle

NextGraphics == GraphicsOutput

SpecGraphics == InitGfx /\ [][NextGraphics]_vars

-----------------------------------------------------------------------------
(* pty.rs: the write handle of one session.  write_to_session returns after *)
(* it spawned a task; the task locks the tokio Mutex of the handle, gives   *)
(* the bytes of the request to the writer of the PTY and drops the guard.   *)
(* Write::write_all loops over Write::write, which may take any part of the *)
(* bytes, so a step of the task writes one byte.                            *)

\* the texts written
WriteData == { <<"a", "b">>, <<"c", "d", "e">> }

\* a Mutex that hands the guard out whatever task holds it
LockAny(w) == TRUE

\* pty.rs:136: writer_arc.lock().await completes when no task holds the guard
LockFree(w) == w.holder = 0

\* pty.rs:138: one byte of data given to the writer
WrittenByte(r, t) == [req |-> r, byte |-> t.data[t.pos + 1]]

\* pty.rs:125-147: write_to_session looks the session up and spawns the task.
\* The caller holds the Mutex of pty_manager, which close_session holds too.
WriteToSession(r) ==
    /\ write_tasks[r].pc = "none"
    /\ \A q \in 1..(r - 1) : write_tasks[q].pc # "none"
    /\ close_pc # "removed"
    /\ \E data \in WriteData :
          write_tasks' = [write_tasks EXCEPT ![r] =
              IF session_open
              THEN [pc |-> "spawned", data |-> data, pos |-> 0]
              ELSE [pc |-> "not found", data |-> data, pos |-> 0]]
    /\ UNCHANGED <<session_open, pty_writer, pty_in, close_pc>>
    /\ UNCHANGED <<decVars, termVars, hookVars, orchVars, idxVars, lockVars>>

\* pty.rs:136: the task takes the guard
TaskLock(r) ==
    /\ write_tasks[r].pc = "spawned"
    /\ LockFree(pty_writer)
    /\ pty_writer' = [pty_writer EXCEPT !.holder = r]
    /\ write_tasks' = [write_tasks EXCEPT ![r].pc = "locked"]
    /\ UNCHANGED <<session_open, pty_in, close_pc>>
    /\ UNCHANGED <<decVars, termVars, hookVars, orchVars, idxVars, lockVars>>

\* pty.rs:137-138: write_all gives the next byte to the writer
TaskWrite(r) ==
    /\ write_tasks[r].pc = "locked"
    /\ pty_writer.open
    /\ write_tasks[r].pos < Len(write_tasks[r].data)
    /\ pty_in' = Append(pty_in, WrittenByte(r, write_tasks[r]))
    /\ write_tasks' = [write_tasks EXCEPT ![r].pos = @ + 1]
    /\ UNCHANGED <<session_open, pty_writer, close_pc>>
    /\ UNCHANGED <<decVars, termVars, hookVars, orchVars, idxVars, lockVars>>

\* pty.rs:138-139: write_all fails, the error is logged and the guard dropped
TaskWriteError(r) ==
    /\ write_tasks[r].pc = "locked"
    /\ pty_writer.open
    /\ write_tasks[r].pos < Len(write_tasks[r].data)
    /\ write_tasks' = [write_tasks EXCEPT ![r].pc = "failed"]
    /\ pty_writer' = [pty_writer EXCEPT !.holder = 0]
    /\ UNCHANGED <<session_open, pty_in, close_pc>>
    /\ UNCHANGED <<decVars, termVars, hookVars, orchVars, idxVars, lockVars>>

\* pty.rs:137-144: all bytes written and flushed, or the handle holds None:
\* the guard is dropped
TaskFinish(r) ==
    /\ write_tasks[r].pc = "locked"
    /\ ~pty_writer.open \/ write_tasks[r].pos = Len(write_tasks[r].data)
    /\ write_tasks' = [write_tasks EXCEPT ![r].pc = "done"]
    /\ pty_writer' = [pty_writer EXCEPT !.holder = 0]
    /\ UNCHANGED <<session_open, pty_in, close_pc>>
    /\ UNCHANGED <<decVars, termVars, hookVars, orchVars, idxVars, lockVars>>

\* pty.rs:150: close_session removes the session from processes
CloseRemove ==
    /\ close_pc = "none"
    /\ session_open
    /\ session_open' = FALSE
    /\ close_pc' = "removed"
    /\ UNCHANGED <<pty_writer, write_tasks, pty_in>>
    /\ UNCHANGED <<decVars, termVars, hookVars, orchVars, idxVars, lockVars>>

\* pty.rs:152-155: close_session takes the guard, stores None and drops it
CloseWriter ==
    /\ close_pc = "removed"
    /\ LockFree(pty_writer)
    /\ pty_writer' = [pty_writer EXCEPT !.open = FALSE]
    /\ close_pc' = "closed"
    /\ UNCHANGED <<session_open, write_tasks, pty_in>>
    /\ UNCHANGED <<decVars, termVars, hookVars, orchVars, idxVars, lockVars>>

InitWriter ==
    /\ InitSyncIdle
    /\ InitDecoderIdle
    /\ InitTerminalIdle
    /\ InitHooksIdle
    /\ InitOrchIdle
    /\ InitIndexIdle

NextWriter ==
    \/ \E r \in 1..MaxRequests :
          \/ WriteToSession(r)
          \/ TaskLock(r)
          \/ TaskWrite(r)
          \/ TaskWriteError(r)
          \/ TaskFinish(r)
    \/ CloseRemove
    \/ CloseWriter

SpecWriter == InitWriter /\ [][NextWriter]_vars

-----------------------------------------------------------------------------
(* terminal.rs: the Mutex of search_index.  process_output appends under   *)
(* it, and search_scrollback, get_scrollback_context and gather_context    *)
(* (tail) query under it.  The TerminalManager is shared between threads   *)
(* and every method takes &self, so calls of different threads overlap.    *)

\* the most calls the threads make
MaxLockCalls == 4

\* the sessions that have an index
LockSessions == 1..2

\* the chunk process_output appends
LockChunk == <<"a", LF>>

\* the operations that take the Mutex of search_index, and those that only read
IndexOps == {"append", "search", "context", "tail"}
IndexQueries == IndexOps \ {"append"}

\* a thread that called op for session id; behind is the operation of the
\* thread that held the Mutex when lock() was called, "none" when it was free
InCall(pc, op, id, behind) == [pc |-> pc, op |-> op, id |-> id, behind |-> behind]

\* the operation of the thread that holds the Mutex
HolderOp == IF index_lock = 0 THEN "none" ELSE threads[index_lock].op

\* terminal.rs:367-368, 435-436, 442-443, 260-261: search_index.lock(); the
\* thread gets the guard when the Mutex is free and is parked when it is not
MutexLock(t, op, id) ==
    IF index_lock = 0
    THEN /\ threads' = [threads EXCEPT ![t] = InCall("holding", op, id, "none")]
         /\ index_lock' = t
    ELSE /\ threads' = [threads EXCEPT ![t] = InCall("waiting", op, id, HolderOp)]
         /\ UNCHANGED index_lock

\* a thread calls process_output, search_scrollback, get_scrollback_context
\* or gather_context and reaches search_index.lock()
IndexCall(t) ==
    /\ threads[t].pc = "idle"
    /\ lock_calls < MaxLockCalls
    /\ \E op \in IndexOps, id \in LockSessions : MutexLock(t, op, id)
    /\ lock_calls' = lock_calls + 1
    /\ UNCHANGED <<orchVars, writerVars>>
    /\ UNCHANGED <<decVars, termVars, hookVars, idxVars>>

\* the Mutex was released and a parked thread gets the guard
IndexAcquire(t) ==
    /\ threads[t].pc = "waiting"
    /\ index_lock = 0
    /\ threads' = [threads EXCEPT ![t].pc = "holding"]
    /\ index_lock' = t
    /\ UNCHANGED <<orchVars, writerVars, lock_calls>>
    /\ UNCHANGED <<decVars, termVars, hookVars, idxVars>>

\* terminal.rs:367-370: append_output under the guard; the guard is dropped
\* at the end of the statement
IndexAppended(t) ==
    /\ threads[t].pc = "holding"
    /\ threads[t].op = "append"
    /\ search_index' = [search_index EXCEPT
                           ![threads[t].id] = IndexAppend(@, LockChunk)]
    /\ threads' = [threads EXCEPT ![t] = Idle]
    /\ index_lock' = 0
    /\ UNCHANGED <<terminals, shell_hooks, processes, poisoned, channel, events,
                   next_id, closed, outcome, call>>
    /\ UNCHANGED <<writerVars, lock_calls>>
    /\ UNCHANGED <<decVars, termVars, hookVars, idxVars>>

\* terminal.rs:434-446, 259-264: search, context or tail under the guard,
\* which reads the index; the guard is dropped at the end of the statement
IndexQueried(t) ==
    /\ threads[t].pc = "holding"
    /\ threads[t].op \in IndexQueries
    /\ threads' = [threads EXCEPT ![t] = Idle]
    /\ index_lock' = 0
    /\ UNCHANGED <<orchVars, writerVars, lock_calls>>
    /\ UNCHANGED <<decVars, termVars, hookVars, idxVars>>

\* two sessions were opened: each has an empty index
InitIndexLock ==
    /\ terminals = EmptyMap
    /\ shell_hooks = EmptyMap
    /\ search_index = [id \in LockSessions |-> NewIndex(DefaultMaxLines)]
    /\ processes = EmptyMap
    /\ poisoned = {}
    /\ channel = <<>>
    /\ events = <<>>
    /\ next_id = 3
    /\ closed = {}
    /\ outcome = "none"
    /\ call = NoCall
    /\ InitSyncIdle
    /\ InitDecoderIdle
    /\ InitTerminalIdle
    /\ InitHooksIdle
    /\ InitIndexIdle

NextIndexLock ==
    \E t \in 1..MaxThreads :
        \/ IndexCall(t)
        \/ IndexAcquire(t)
        \/ IndexAppended(t)
        \/ IndexQueried(t)

SpecIndexLock == InitIndexLock /\ [][NextIndexLock]_vars

-----------------------------------------------------------------------------
(* terminal.rs: the guards of the four stores.  Every method of the        *)
(* TerminalManager locks a store in an expression of the form              *)
(* self.store.lock().unwrap().method(..): the guard is a temporary, which  *)
(* is dropped at the end of the statement, or at the end of the if let     *)
(* whose scrutinee it is part of.                                           *)

\* the most calls the threads make
MaxGuardCalls == 3

Stores == {"terminals", "shell_hooks", "search_index", "pty_manager"}

\* the stores that hold one entry for each session: the terminals with grid
\* and parser, the trackers and the search indexes
SessionStores == {"terminals", "shell_hooks", "search_index"}

\* the stores a method locks, in the order of its statements
GuardOrder(op) ==
    CASE op = "create_terminal" ->
            <<"pty_manager", "shell_hooks", "search_index", "terminals">>
      [] op = "write_to_terminal" -> <<"pty_manager">>
      [] op = "resize_terminal" -> <<"terminals", "pty_manager">>
      [] op = "close_terminal" ->
            <<"terminals", "shell_hooks", "search_index", "pty_manager">>
      [] op = "process_output" -> <<"shell_hooks", "search_index", "terminals">>
      [] op = "gather_context" -> <<"shell_hooks", "shell_hooks", "search_index">>
      [] op = "get_terminal_state" -> <<"terminals">>
      [] op = "get_command_history" -> <<"shell_hooks">>
      [] op = "is_at_prompt" -> <<"shell_hooks">>
      [] op = "search_scrollback" -> <<"search_index">>
      [] op = "get_scrollback_context" -> <<"search_index">>

GuardOps ==
    { "create_terminal", "write_to_terminal", "resize_terminal", "close_terminal",
      "process_output", "gather_context", "get_terminal_state",
      "get_command_history", "is_at_prompt", "search_scrollback",
      "get_scrollback_context" }

\* a thread in the method op, at the step-th lock of it, with the guards held
InMethod(pc, op, step, held) == [pc |-> pc, op |-> op, step |-> step, held |-> held]

NoMethod == InMethod("idle", "none", 0, {})

\* the store the thread is about to lock or holds the guard of
StoreAt(t) == GuardOrder(threads[t].op)[threads[t].step]

\* the threads that hold the guard of the store
Holders(store) == { t \in 1..MaxThreads : store \in threads[t].held }

\* a guard that lives until the method returns
KeptToReturn(held, store) == held

\* the guards held once the statement that locked store has ended: its guard
\* is a temporary of the statement
DroppedAtEnd(held, store) == held \ {store}

\* a thread calls a method of the TerminalManager
GuardCall(t) ==
    /\ threads[t].pc = "idle"
    /\ lock_calls < MaxGuardCalls
    /\ \E op \in GuardOps : threads' = [threads EXCEPT ![t] = InMethod("locking", op, 1, {})]
    /\ lock_calls' = lock_calls + 1
    /\ UNCHANGED <<orchVars, writerVars, index_lock>>
    /\ UNCHANGED <<decVars, termVars, hookVars, idxVars>>

\* store.lock() returns the guard once no thread holds it
GuardLock(t) ==
    /\ threads[t].pc = "locking"
    /\ Holders(StoreAt(t)) = {}
    /\ threads' = [threads EXCEPT ![t].pc = "holding",
                                  ![t].held = @ \cup {StoreAt(t)}]
    /\ UNCHANGED <<orchVars, writerVars, index_lock, lock_calls>>
    /\ UNCHANGED <<decVars, termVars, hookVars, idxVars>>

\* the statement ends and its guard is dropped; after the last statement the
\* method returns
GuardDrop(t) ==
    /\ threads[t].pc = "holding"
    /\ threads' = [threads EXCEPT ![t] =
          IF threads[t].step = Len(GuardOrder(threads[t].op)) THEN NoMethod
          ELSE InMethod("locking", threads[t].op, threads[t].step + 1,
                        DroppedAtEnd(threads[t].held, StoreAt(t)))]
    /\ UNCHANGED <<orchVars, writerVars, index_lock, lock_calls>>
    /\ UNCHANGED <<decVars, termVars, hookVars, idxVars>>

InitGuards ==
    /\ threads = [t \in 1..MaxThreads |-> NoMethod]
    /\ index_lock = 0
    /\ lock_calls = 0
    /\ session_open = TRUE
    /\ pty_writer = NewWriter
    /\ write_tasks = [r \in 1..MaxRequests |-> NoTask]
    /\ pty_in = <<>>
    /\ close_pc = "none"
    /\ InitDecoderIdle
    /\ InitTerminalIdle
    /\ InitHooksIdle
    /\ InitOrchIdle
    /\ InitIndexIdle

NextGuards ==
    \E t \in 1..MaxThreads :
        \/ GuardCall(t)
        \/ GuardLock(t)
        \/ GuardDrop(t)

SpecGuards == InitGuards /\ [][NextGuards]_vars

-----------------------------------------------------------------------------
(* One open session that is resized.  resize_terminal resizes the grid and *)
(* resize_session records the size and hands the resize of the OS handle   *)
(* to a task of the blocking pool (pty.rs:110-119); the tasks run on        *)
(* threads of their own and lock the handle in the order they get to it.    *)

\* the session that is open
ResizedId == 1

\* the sizes asked for
ResizeRequests == { TerminalSize(1, 1), TerminalSize(2, 1), TerminalSize(1, 2) }

\* a task that was dispatched to resize the OS handle to size
ResizeJob(size) == [pc |-> "spawned", data |-> size, pos |-> 0]

\* a call that returned an error or panicked, and dispatched nothing
NoJob(size) == [pc |-> "not found", data |-> size, pos |-> 0]

\* create_terminal has returned the session: it is in the four stores, and
\* its welcome message is in the channel
InitResize ==
    /\ terminals = Put(EmptyMap, ResizedId, NewTerminal(CreateSize))
    /\ shell_hooks = Put(EmptyMap, ResizedId,
                         NewHooks(detect_shell_type(DefaultShell), WorkDir, OrchOrder))
    /\ search_index = Put(EmptyMap, ResizedId, NewIndex(DefaultMaxLines))
    /\ processes = Put(EmptyMap, ResizedId,
                       PtySession(ResizedId, CreateSize, DefaultShell, WorkDir))
    /\ poisoned = {}
    /\ channel = <<Output(ResizedId, WelcomeMsg(WorkDir))>>
    /\ events = <<>>
    /\ next_id = ResizedId + 1
    /\ closed = {}
    /\ outcome = "Ok"
    /\ call = Call("create", ResizedId)
    /\ overflow_checks \in BOOLEAN
    /\ term = NewTerminal(TerminalSize(1, 1))
    /\ before = term
    /\ crashed = FALSE
    /\ last = NoOp
    /\ steps = 0
    /\ InitDecoderIdle
    /\ InitHooksIdle
    /\ InitIndexIdle
    /\ InitSyncIdle

\* TerminalManager::resize_terminal, the r-th call: the grid is resized, the
\* size recorded and the task dispatched
ResizeRequest(r) ==
    /\ write_tasks[r].pc = "none"
    /\ \A q \in 1..(r - 1) : write_tasks[q].pc # "none"
    /\ \E size \in ResizeRequests :
          /\ Resized(ResizedId, size)
          /\ write_tasks' = [write_tasks EXCEPT ![r] =
                IF outcome' = "Ok" THEN ResizeJob(size) ELSE NoJob(size)]
    /\ call' = Call("resize", ResizedId)
    /\ UNCHANGED <<shell_hooks, search_index, channel, events, next_id, closed>>
    /\ UNCHANGED <<session_open, pty_writer, pty_in, close_pc, lockVars>>
    /\ UNCHANGED <<decVars, termVars, hookVars, idxVars>>

\* pty.rs:110-119: the task locks the handle and resizes it
ResizeTask(r) ==
    /\ write_tasks[r].pc = "spawned"
    /\ pty_in' = Append(pty_in, write_tasks[r].data)
    /\ write_tasks' = [write_tasks EXCEPT ![r].pc = "done"]
    /\ UNCHANGED <<session_open, pty_writer, close_pc, lockVars>>
    /\ UNCHANGED <<decVars, termVars, hookVars, orchVars, idxVars>>

NextResize ==
    \E r \in 1..MaxRequests :
        \/ ResizeRequest(r)
        \/ ResizeTask(r)

SpecResize == InitResize /\ [][NextResize]_vars

-----------------------------------------------------------------------------
(* A decoder fed chunks one after the other, among them the start of a     *)
(* string sequence and text that never ends it.                            *)

\* the most chunks fed
MaxBufferFeeds == 4

\* the start of an OSC sequence and of a control sequence, text, parameters,
\* and the characters that end a sequence
BufferChunks ==
    { <<ESC, "]", "0", ";">>, <<"t", "i", "t", "l", "e">>, <<BEL>>,
      <<ESC, "[">>, <<"1", ";">>, <<"H">> }

InitBuffer ==
    /\ InitDecoderIdle
    /\ InitTerminalIdle
    /\ InitHooksIdle
    /\ InitOrchIdle
    /\ InitIndexIdle
    /\ InitSyncIdle

\* Terminal::process_output calls parse with the next chunk read
FeedChunk ==
    /\ Len(chunks) < MaxBufferFeeds
    /\ \E chunk \in BufferChunks : Decode(chunk)
    /\ UNCHANGED <<termVars, hookVars, orchVars, idxVars, syncVars>>

NextBuffer == FeedChunk

SpecBuffer == InitBuffer /\ [][NextBuffer]_vars

-----------------------------------------------------------------------------
(* One tracker whose history fills.  ShellHooks::new sets max_history_size *)
(* to 1000 and add_to_history compares the length of the history with the  *)
(* field; the tracker is started with a smaller value of the field, so     *)
(* that the history fills within a few commands.                           *)

\* the largest max_history_size tried
MaxHistory == 2

\* the most chunks fed to the tracker
MaxHistoryFeeds == 4

PromptLine == Prompt \o <<LF>>

\* the echo of a command, and the prompt that follows it
Round(text) == text \o <<LF>> \o PromptLine

HistoryChunks ==
    { PromptLine, <<"l","s",LF>>, <<"o","k",LF>>,
      Round(<<"l","s">>), Round(<<"p","w","d">>) }

InitHistory ==
    /\ \E size \in 1..MaxHistory :
          hooks = [NewHooks("Bash", <<"/">>, OrchOrder) EXCEPT
                      !.max_history_size = size]
    /\ clock = 0
    /\ fed = <<>>
    /\ InitDecoderIdle
    /\ InitTerminalIdle
    /\ InitOrchIdle
    /\ InitIndexIdle
    /\ InitSyncIdle

\* ShellHooks::process_output with one chunk; the clock may have advanced
HistoryOutput ==
    /\ Len(fed) < MaxHistoryFeeds
    /\ \E data \in HistoryChunks, elapsed \in 0..1 :
          /\ hooks' = HooksProcessOutput(hooks, data, clock + elapsed)
          /\ clock' = clock + elapsed
          /\ fed' = Append(fed, data)
    /\ UNCHANGED <<decVars, termVars, orchVars, idxVars, syncVars>>

NextHistory == HistoryOutput

SpecHistory == InitHistory /\ [][NextHistory]_vars

-----------------------------------------------------------------------------
(* Properties of the decoder, checked under SpecDecoder *)

\* what one call of parse returns for the whole stream, on a fresh parser
WholeOps == parse(NewParser, stream).out

\* the whole stream has been fed, in the chunks recorded
AllFed == chunks # <<>> /\ Fed = stream

\* the escape sequences of the mix that introduce a string
StringTokens == { t \in SequenceTokens : t[2] \in {"]", "P", "^", "_"} }

\* the control sequences of the mix that parse_csi_sequence does not recognize
UnrecognizedTokens ==
    { <<ESC, "[", "5", "~">>, <<ESC, "[", "2", "z">>,
      <<ESC, "[", "?", "7", "h">>, <<ESC, "[", "9", "J">> }

\* adjacent PrintText commands joined into one
RECURSIVE MergeText(_)
MergeText(cs) ==
    IF Len(cs) < 2 THEN cs
    ELSE IF cs[1].op = "PrintText" /\ cs[2].op = "PrintText"
         THEN MergeText(<<PrintText(cs[1].text \o cs[2].text)>> \o SubSeq(cs, 3, Len(cs)))
         ELSE <<cs[1]>> \o MergeText(Tail(cs))

\* C3: an escape sequence cut at any offset and decoded in two (or more)
\* calls of parse on a fresh parser yields, concatenated, the commands one
\* call with the whole sequence yields.
C3_Resumable == (stream \in EscSequences /\ AllFed) => ops = WholeOps

\* a sequence that yields a command has been decoded in two parts
C3_Witness ==
    /\ stream \in EscSequences
    /\ AllFed
    /\ Len(chunks) = 2
    /\ ops # <<>>

C9_BothTerminatorsClose ==
    \A s \in StringTokens, t \in TextTokens :
        chunks = <<s \o t>> =>
            /\ Len(ops) = 2
            /\ ops[1].op # "PrintText"
            /\ ops[2] = PrintText(t)
            /\ ~parser.in_escape
            /\ parser.buffer = <<>>

\* a title sequence closed by ESC backslash and the text after it yielded no
\* command, and the decoder is still accumulating
C9_Swallowed ==
    /\ chunks = << <<ESC, "]", "0", ";", "t", ESC, "\\", "h", "i">> >>
    /\ ops = <<>>
    /\ parser.in_escape

\* C10: a control sequence with an unrecognized final byte or mode, decoded
\* in one call with the text after it, yields one Unknown command carrying
\* the sequence, then what a fresh decoder yields for the text, and leaves
\* the decoder in the ground state.
C10_UnknownThenResume ==
    \A s \in UnrecognizedTokens, t \in TextTokens :
        chunks = <<s \o t>> =>
            /\ ops = <<Unknown(s)>> \o parse(NewParser, t).out
            /\ ~parser.in_escape
            /\ parser.buffer = <<>>

\* the final byte ~ did not end the sequence: the letter after it did, and
\* the Unknown command carries that letter too
C10_TildeRunsOn ==
    /\ chunks = << <<ESC, "[", "5", "~", "h", "i">> >>
    /\ ops = <<Unknown(<<ESC, "[", "5", "~", "h">>), PrintText(<<"i">>)>>

-----------------------------------------------------------------------------
(* Properties of the grid, checked under SpecTerminal *)

CursorInBounds(g) ==
    /\ g.cursor.row >= 0 /\ g.cursor.row < Len(g.rows)
    /\ g.cursor.col >= 0 /\ g.cursor.col < g.cols

\* every row of the grid has as many cells as the grid has columns
Rectangular(g) == \A r \in 1..Len(g.rows) : Len(g.rows[r]) = g.cols

SameDims(g, h) == Len(g.rows) = Len(h.rows) /\ g.cols = h.cols

\* the cursor is on the last cell of the last row
AtLastCell(g) ==
    /\ Len(g.rows) >= 1 /\ g.cols >= 1
    /\ g.cursor.row = Len(g.rows) - 1
    /\ g.cursor.col = g.cols - 1

\* g is b after ch was written on its last cell and the grid scrolled by one
ScrolledOne(b, g, ch, attributes) ==
    /\ \A r \in 1..(Len(b.rows) - 2) : g.rows[r] = b.rows[r + 1]
    /\ Len(b.rows) >= 2 =>
          g.rows[Len(b.rows) - 1] =
              [b.rows[Len(b.rows)] EXCEPT ![b.cols] = TerminalChar(ch, attributes)]
    /\ g.rows[Len(b.rows)] = BlankRow(b.cols)
    /\ g.cursor = [row |-> Len(b.rows) - 1, col |-> 0]

\* the last operation decoded and applied just the chunk data, and returned
Applying(data) == last.op = "process_output" /\ last.data = data /\ ~crashed

\* the chunk was decoded from the ground state and applied
AppliedFromGround(data) == Applying(data) /\ ~before.parser.in_escape

\* C5: after any sequence of writes, cursor moves, clears, scrolls and
\* resizes to any requested size, the cursor row is in [0, rows) and the
\* cursor column is in [0, columns).
C5_CursorInBounds == ~crashed => CursorInBounds(term.grid)

\* a resize to no rows returned and left the cursor on a row the grid lacks
C5_CursorOutside ==
    /\ last.op = "resize" /\ last.rows = 0
    /\ ~crashed
    /\ term.grid.cursor.row >= Len(term.grid.rows)

\* C6: the grid always has size.rows rows of size.cols cells; applying
\* decoded commands never changes its dimensions; and a write on the last
\* cell of the last row scrolls: the top row goes, a blank row is appended
\* and the cursor is on the last row at column 0.
C6_DimsFixedAndScroll ==
    /\ Rectangular(term.grid)
    /\ Len(term.grid.rows) = term.size.rows
    /\ term.grid.cols = term.size.cols
    /\ last.op = "process_output" => SameDims(before.grid, term.grid)
    /\ (AppliedFromGround(<<"a">>) /\ AtLastCell(before.grid)) =>
          ScrolledOne(before.grid, term.grid, "a", before.parser.current_attributes)

\* a write on the last cell scrolled a grid whose top row held text
C6_Witness ==
    /\ AppliedFromGround(<<"a">>)
    /\ AtLastCell(before.grid)
    /\ Len(before.grid.rows) >= 2
    /\ before.grid.rows[1] # BlankRow(before.grid.cols)
    /\ term.grid.rows[Len(term.grid.rows)] = BlankRow(term.grid.cols)

\* C8: on a grid with a cell, a carriage return moves the cursor to column 0
\* of its row, a line feed one row down (clamped), a backspace one column
\* left, a tab 8 columns right (clamped), and a bell leaves the grid as it was.
C8_ControlsTakeEffect ==
    (CursorInBounds(before.grid) /\ ~crashed /\ last.op = "process_output") =>
        /\ last.data = <<CR>> =>
              term.grid.cursor = [row |-> before.grid.cursor.row, col |-> 0]
        /\ last.data = <<LF>> =>
              term.grid.cursor =
                  [row |-> Min(before.grid.cursor.row + 1, Len(before.grid.rows) - 1),
                   col |-> before.grid.cursor.col]
        /\ last.data = <<BS>> =>
              term.grid.cursor = [row |-> before.grid.cursor.row,
                                  col |-> Max(before.grid.cursor.col - 1, 0)]
        /\ last.data = <<TAB>> =>
              term.grid.cursor =
                  [row |-> before.grid.cursor.row,
                   col |-> Min(before.grid.cursor.col + 8, before.grid.cols - 1)]
        /\ last.data = <<BEL>> => term.grid = before.grid

\* a carriage return was decoded and applied and the cursor is not at column 0
C8_ReturnIgnored ==
    /\ Applying(<<CR>>)
    /\ CursorInBounds(before.grid)
    /\ term.grid.cursor.col > 0

-----------------------------------------------------------------------------
(* Properties of the tracker, checked under SpecHooks *)

\* the three chunks of the prompt round trip
RoundTrip == <<Prompt, <<"l", "s", LF>>, Prompt>>

\* C7: after the chunks "user@host:~$ ", "ls" with a line feed and
\* "user@host:~$ " the history holds exactly one entry, its text is "ls" and
\* its duration is present and not negative.
C7_PromptRoundTrip ==
    fed = RoundTrip =>
        /\ Len(hooks.command_history) = 1
        /\ hooks.command_history[1].text = <<"l", "s">>
        /\ hooks.command_history[1].duration_ms # <<>>
        /\ hooks.command_history[1].duration_ms[1] >= 0

\* after the round trip the history is empty and a command whose text is the
\* prompt followed by "ls" is still in flight
C7_NothingCompleted ==
    /\ fed = RoundTrip
    /\ hooks.command_history = <<>>
    /\ hooks.current_command # <<>>
    /\ hooks.current_command[1].text = Prompt \o <<"l", "s">>

-----------------------------------------------------------------------------
(* Properties of the orchestrator, checked under SpecOrch *)

\* the three stores process_output feeds, as create_terminal leaves them
\* for session id alone
Fresh(id) ==
    [shell_hooks |-> Put(EmptyMap, id,
                         NewHooks(detect_shell_type(DefaultShell), WorkDir, OrchOrder)),
     search_index |-> Put(EmptyMap, id, NewIndex(DefaultMaxLines)),
     terminals |-> Put(EmptyMap, id, NewTerminal(CreateSize))]

\* the stores after process_output was called with each of outputs, in order
RECURSIVE Processed(_, _)
Processed(st, outputs) ==
    IF outputs = <<>> THEN st
    ELSE Processed(process_output(st, Head(outputs), clock, overflow_checks),
                   Tail(outputs))

\* session id is in the three stores process_output feeds
Registered(id) ==
    id \in (DOMAIN terminals \cap DOMAIN shell_hooks) \cap DOMAIN search_index

\* the receiving loop has taken a chunk of the reader of session id
ReaderChunkReceived(id) ==
    \E i \in 1..Len(events) :
        events[i].session_id = id /\ events[i].data \in ReaderChunks

\* C1: every chunk the reader of a session emitted is delivered to the
\* session's grid, tracker and search index, in the order of emission.  The
\* loop of lib.rs is the only receiver of the channel, and a message it has
\* taken exists nowhere else: delivery means that, once the loop has taken
\* the messages of a session, the three consumers of the session are in the
\* state that processing exactly these messages, in this order, leaves.  (A
\* terminal that still has the size it was opened with was never resized.)
C1_DeliveredInOrder ==
    \A id \in 1..MaxSessions :
        (/\ Registered(id)
         /\ ReaderChunkReceived(id)
         /\ terminals[id].size = CreateSize)
        => LET st == Processed(Fresh(id), events)
           IN  /\ terminals[id] = st.terminals[id]
               /\ shell_hooks[id] = st.shell_hooks[id]
               /\ search_index[id] = st.search_index[id]

\* C1, the case: the loop has taken every message sent, a chunk of the
\* reader of an open session among them, and the session's grid, tracker and
\* index are as they were when the session was opened.
C1_Undelivered ==
    \E id \in 1..MaxSessions :
        /\ Registered(id)
        /\ ReaderChunkReceived(id)
        /\ channel = <<>>
        /\ terminals[id] = NewTerminal(CreateSize)
        /\ search_index[id] = NewIndex(DefaultMaxLines)
        /\ shell_hooks[id] = Fresh(id).shell_hooks[id]

\* C2: between two operations a session id is in the PTY registry exactly
\* if it is in the store of terminals, in that of the tracker and in that of
\* the search index, and an id close_terminal returned for is in none of
\* the four, whatever is received afterwards.
C2_StoresAgree ==
    \A id \in 1..MaxSessions :
        /\ (id \in DOMAIN processes) = (id \in DOMAIN terminals)
        /\ (id \in DOMAIN processes) = (id \in DOMAIN shell_hooks)
        /\ (id \in DOMAIN processes) = (id \in DOMAIN search_index)
        /\ id \in closed =>
              id \notin (DOMAIN processes \cup DOMAIN terminals)
                            \cup (DOMAIN shell_hooks \cup DOMAIN search_index)

\* C2, the case: create_terminal panicked on the poisoned lock of
\* shell_hooks after the PTY registry took the session, and no other store
\* has it.
C2_PtyOnly ==
    \E id \in 1..MaxSessions :
        /\ outcome = "Panic"
        /\ "shell_hooks" \in poisoned
        /\ id \in DOMAIN processes
        /\ id \notin (DOMAIN terminals \cup DOMAIN shell_hooks) \cup DOMAIN search_index

-----------------------------------------------------------------------------
(* Properties of the parameters of a control sequence *)

\* C11: numeric parameters are positional.  A cursor-position sequence with
\* only the column given, ESC [ ; 5 H, decodes to row 1, column 5; with no
\* parameter to row 1, column 1; a cursor move without parameter moves by 1;
\* an erase without parameter erases from the cursor.
C11_Positional ==
    AllFed =>
        /\ stream = Csi(<<";", "5", "H">>) => ops = <<Num2("CursorPosition", 1, 5)>>
        /\ stream = Csi(<<"H">>) => ops = <<Num2("CursorPosition", 1, 1)>>
        /\ stream = Csi(<<"A">>) => ops = <<Num("CursorUp", 1)>>
        /\ stream = Csi(<<"J">>) => ops = <<Plain("ClearFromCursor")>>
        /\ stream = Csi(<<"K">>) => ops = <<Plain("ClearToEndOfLine")>>

\* the empty first parameter was dropped and the column taken for the row
C11_Shifted ==
    /\ AllFed
    /\ stream = Csi(<<";", "5", "H">>)
    /\ ops = <<Num2("CursorPosition", 5, 1)>>

-----------------------------------------------------------------------------
(* Properties of writing text to the grid, checked under SpecTerminal *)

\* the chunk is printable text
IsText(data) == data # <<>> /\ \A i \in 1..Len(data) : data[i] \in Letters

\* the cursor is on a cell of the first column
LineStart(g) == CursorInBounds(g) /\ g.cursor.col = 0

Cells(text, attributes) == [i \in 1..Len(text) |-> TerminalChar(text[i], attributes)]

\* the grid b after the row of its cursor took the cells and the cursor went
\* to the start of the next row, the rows moving up by one when there is none
AfterRow(b, cells) ==
    IF b.cursor.row < Len(b.rows) - 1
    THEN [rows   |-> [b.rows EXCEPT ![b.cursor.row + 1] = cells],
          cursor |-> [row |-> b.cursor.row + 1, col |-> 0]]
    ELSE [rows   |-> Tail([b.rows EXCEPT ![b.cursor.row + 1] = cells])
                        \o <<BlankRow(b.cols)>>,
          cursor |-> [row |-> Len(b.rows) - 1, col |-> 0]]

\* the rows and cursor of a after ch was written on the cell of its cursor,
\* in a row of two columns or more
AfterExtra(a, ch, attributes) ==
    [rows   |-> [a.rows EXCEPT ![a.cursor.row + 1][1] = TerminalChar(ch, attributes)],
     cursor |-> [row |-> a.cursor.row, col |-> 1]]

SameRowsAndCursor(g, a) == g.rows = a.rows /\ g.cursor = a.cursor

\* C12: with the cursor at column 0 of row r, text as wide as the row fills
\* row r and takes the cursor to row r+1, column 0, or scrolls the grid by
\* one when r is the last row; a character written there changes that cell
\* only; and text one character wider than the row leaves its first
\* `columns` characters on their row (moved up by the scroll when r was the
\* last row) and the extra one at column 0 of the row below.
C12_Wrap ==
    (AppliedFromGround(last.data) /\ IsText(last.data) /\ LineStart(before.grid)) =>
        /\ Len(last.data) = before.grid.cols =>
              SameRowsAndCursor(term.grid,
                  AfterRow(before.grid,
                           Cells(last.data, before.parser.current_attributes)))
        /\ (Len(last.data) = 1 /\ before.grid.cols >= 2) =>
              SameRowsAndCursor(term.grid,
                  AfterExtra(before.grid, last.data[1],
                             before.parser.current_attributes))
        /\ (Len(last.data) = before.grid.cols + 1 /\ before.grid.cols >= 2) =>
              SameRowsAndCursor(term.grid,
                  AfterExtra(AfterRow(before.grid,
                                      Cells(SubSeq(last.data, 1, before.grid.cols),
                                            before.parser.current_attributes)),
                             last.data[before.grid.cols + 1],
                             before.parser.current_attributes))

\* text one character wider than the last row was written from its first
\* column: the row above holds the first characters, the last row the extra
C12_Wrapped ==
    /\ AppliedFromGround(RowText(before.grid.cols + 1))
    /\ LineStart(before.grid)
    /\ before.grid.cols >= 2
    /\ Len(before.grid.rows) >= 2
    /\ before.grid.cursor.row = Len(before.grid.rows) - 1
    /\ term.grid.rows[Len(term.grid.rows) - 1] =
          Cells(RowText(before.grid.cols), before.parser.current_attributes)
    /\ term.grid.rows[Len(term.grid.rows)][1].character =
          RowText(before.grid.cols + 1)[before.grid.cols + 1]

-----------------------------------------------------------------------------
(* Properties of the search index, checked under SpecIndex *)

\* the chunk is one line of text followed by its line feed
IsLine(data) ==
    /\ data # <<>>
    /\ data[Len(data)] = LF
    /\ \A k \in 1..(Len(data) - 1) : data[k] \notin {CR, LF, ESC}

\* the chunk without its line feed
LineOf(data) == SubSeq(data, 1, Len(data) - 1)

\* the last n elements of a sequence
LastN(s, n) == SubSeq(s, Max(Len(s) - n, 0) + 1, Len(s))

\* C13: the index never holds more than max_lines lines, and after lines
\* with their line feed were appended to an empty index it holds the last
\* max_lines of them, in the order they came in.
C13_KeepsLastLines ==
    /\ Len(scrollback.lines) <= scrollback.max_lines
    /\ (\A k \in 1..Len(appended) : IsLine(appended[k])) =>
          /\ scrollback.buf = <<>>
          /\ scrollback.lines =
                LastN([k \in 1..Len(appended) |-> LineOf(appended[k])],
                      scrollback.max_lines)

\* more lines than the index keeps were appended, and the oldest is gone
C13_Evicted ==
    /\ scrollback.max_lines >= 1
    /\ Len(appended) > scrollback.max_lines
    /\ \A k \in 1..Len(appended) : IsLine(appended[k])
    /\ LineOf(appended[1]) # LineOf(appended[Len(appended)])
    /\ scrollback.lines[Len(scrollback.lines)] = LineOf(appended[Len(appended)])
    /\ \A k \in 1..Len(scrollback.lines) : scrollback.lines[k] # LineOf(appended[1])

\* the number of characters of text that make up its first n bytes, -1 when
\* byte n is inside a character or beyond the text
CharsIn(text, n) ==
    IF is_char_boundary(text, n)
    THEN CHOOSE k \in 0..Len(text) : ByteLen(SubSeq(text, 1, k)) = n
    ELSE -1

\* text[start..end] is a slice Rust can take
SliceOk(text, start, end) ==
    start <= end /\ CharsIn(text, start) >= 0 /\ CharsIn(text, end) >= 0

\* text[start..end]
Slice(text, start, end) ==
    SubSeq(text, CharsIn(text, start) + 1, CharsIn(text, end))

\* two texts are the same, letters compared without their case
SameText(a, b, case_sensitive) ==
    IF case_sensitive THEN a = b ELSE to_lowercase(a) = to_lowercase(b)

\* a plain search was the last call
PlainSearched == asked.called /\ ~asked.use_regex /\ asked.query # <<>>

\* the match names a stored line, carries its text, and the text of the line
\* between start and end is the query
MatchIsQuery(m) ==
    /\ m.line_index + 1 \in 1..Len(scrollback.lines)
    /\ m.line = scrollback.lines[m.line_index + 1]
    /\ m.line_content = m.line
    /\ SliceOk(m.line, m.start, m.end)
    /\ SameText(Slice(m.line, m.start, m.end), asked.query, asked.case_sensitive)

\* the occurrences of the query in a line, scanned left to right without
\* overlap, each [start, end) in bytes of the line
RECURSIVE Occurrences(_, _, _, _)
Occurrences(line, query, case_sensitive, from) ==
    IF from + Len(query) - 1 > Len(line) THEN <<>>
    ELSE IF SameText(SubSeq(line, from, from + Len(query) - 1), query, case_sensitive)
         THEN << <<ByteLen(SubSeq(line, 1, from - 1)),
                   ByteLen(SubSeq(line, 1, from + Len(query) - 1))>> >>
              \o Occurrences(line, query, case_sensitive, from + Len(query))
         ELSE Occurrences(line, query, case_sensitive, from + 1)

\* the matches of the occurrences of every stored line from line i on
RECURSIVE AllOccurrences(_)
AllOccurrences(i) ==
    IF i > Len(scrollback.lines) THEN <<>>
    ELSE [k \in 1..Len(Occurrences(scrollback.lines[i], asked.query,
                                   asked.case_sensitive, 1)) |->
             ScrollMatch(i - 1,
                         Occurrences(scrollback.lines[i], asked.query,
                                     asked.case_sensitive, 1)[k][1],
                         Occurrences(scrollback.lines[i], asked.query,
                                     asked.case_sensitive, 1)[k][2],
                         scrollback.lines[i])]
         \o AllOccurrences(i + 1)

\* the matches are in the order of their lines and, in a line, of their starts
InLineOrder(matches) ==
    \A a, b \in 1..Len(matches) :
        a < b => \/ matches[a].line_index < matches[b].line_index
                 \/ /\ matches[a].line_index = matches[b].line_index
                    /\ matches[a].start < matches[b].start

FooBar == <<"f", "o", "o", " ", "b", "a", "r">>
BarFoo == <<"B", "A", "R", " ", "f", "o", "o">>

\* C14: each match of a plain search names a stored line and the text of
\* this line from start to end is the query (letters compared without case
\* when the search is not case-sensitive); a search the limit did not stop
\* returns every occurrence, scanned left to right without overlap; the
\* matches are in line order; and for the lines "foo bar" and "BAR foo" the
\* search for "bar" without case returns (0, 3..6) and (1, 0..3).
C14_PlainMatches ==
    PlainSearched =>
        /\ \A k \in 1..Len(found) : MatchIsQuery(found[k])
        /\ Len(found) < asked.limit => found = AllOccurrences(1)
        /\ InLineOrder(found)
        /\ (/\ scrollback.lines = <<FooBar, BarFoo>>
            /\ asked.query = <<"b", "a", "r">>
            /\ ~asked.case_sensitive
            /\ asked.limit >= 2)
           => found = <<ScrollMatch(0, 3, 6, FooBar), ScrollMatch(1, 0, 3, BarFoo)>>

\* a search without case returned a match that ends beyond its line: the
\* offsets are those of the line in lower case, which is longer
C14_BeyondLine ==
    /\ PlainSearched
    /\ ~asked.case_sensitive
    /\ \E k \in 1..Len(found) : found[k].end > ByteLen(found[k].line)

\* what the last search returns when no limit stops it
Unlimited ==
    search(scrollback, asked.query, asked.case_sensitive, asked.use_regex,
           Len(scrollback.lines) * 8 + 1)

\* C15: in plain and in regular-expression mode, for every limit, search
\* returns at most `limit` matches, and the first `limit` matches in line
\* order when there are more.
C15_AtMostLimit ==
    asked.called =>
        /\ Len(found) <= asked.limit
        /\ Len(Unlimited) > asked.limit => found = SubSeq(Unlimited, 1, asked.limit)

\* a search with limit 0 returned a match
C15_OneForZero ==
    /\ asked.called
    /\ asked.limit = 0
    /\ Len(found) = 1

-----------------------------------------------------------------------------
(* Properties of the attributes, checked under SpecTerminal *)

Red(attributes) == [attributes EXCEPT !.fg_color = "red"]

\* the grid is before's after text was written with the attributes, and the
\* current attributes are those given
WroteWith(text, attributes, current) ==
    /\ term.grid = WriteText(before.grid, text, attributes)
    /\ term.parser.current_attributes = current

\* C16: commands are applied in the order of the stream.  Text is written
\* with the attributes the graphics modes before it left, those of earlier
\* calls included, and leaves them as they are; a graphics mode changes the
\* attributes for the text after it only; ESC[31m Hello ESC[0m in one call
\* writes Hello in red and leaves the foreground colour cleared; and so does
\* a graphics mode whose sequence was cut by the end of a call.
C16_AttributesInOrder ==
    /\ (AppliedFromGround(last.data) /\ IsText(last.data)) =>
          WroteWith(last.data, before.parser.current_attributes,
                    before.parser.current_attributes)
    /\ AppliedFromGround(Csi(<<"3", "1", "m">>)) =>
          /\ term.grid = before.grid
          /\ term.parser.current_attributes = Red(before.parser.current_attributes)
    /\ AppliedFromGround(Csi(<<"0", "m">>)) =>
          /\ term.grid = before.grid
          /\ term.parser.current_attributes = DefaultAttributes
    /\ AppliedFromGround(RedHello) =>
          WroteWith(<<"H", "e", "l", "l", "o">>, Red(before.parser.current_attributes),
                    DefaultAttributes)
    /\ (Applying(RedCutTail) /\ before.parser.in_escape
            /\ before.parser.buffer = RedCutHead) =>
          WroteWith(<<"a">>, Red(before.parser.current_attributes),
                    Red(before.parser.current_attributes))
    /\ (last.op = "resize" /\ ~crashed) =>
          term.parser.current_attributes = before.parser.current_attributes

\* Hello was written in red on a grid that was blank, and the foreground
\* colour is cleared
C16_RedHello ==
    /\ AppliedFromGround(RedHello)
    /\ before.grid = NewGrid(before.grid.cols, Len(before.grid.rows))
    /\ before.parser.current_attributes = DefaultAttributes
    /\ \E r \in 1..Len(term.grid.rows), c \in 1..term.grid.cols :
          term.grid.rows[r][c] = TerminalChar("o", Red(DefaultAttributes))
    /\ \A r \in 1..Len(term.grid.rows), c \in 1..term.grid.cols :
          term.grid.rows[r][c] # DefaultChar =>
              term.grid.rows[r][c].attributes = Red(DefaultAttributes)
    /\ term.parser.current_attributes.fg_color = "None"

-----------------------------------------------------------------------------
(* Properties of the graphics modes, checked under SpecGraphics *)

\* the eight standard colours, in the order of the parameters 30-37 and 40-47
StandardColors ==
    <<"black", "red", "green", "yellow", "blue", "magenta", "cyan", "white">>

\* one attribute after parameter p: set by `on`, cleared by `off` and by 0
Flag(old, p, on, off) ==
    IF p = on THEN TRUE ELSE IF p \in {off, 0} THEN FALSE ELSE old

\* one colour after parameter p: set by base..base+7, cleared by `off` and by 0
Colour(old, p, base, off) ==
    IF p \in base..(base + 7) THEN StandardColors[p - base + 1]
    ELSE IF p \in {off, 0} THEN "None" ELSE old

\* the table of the claim, one parameter applied to the attributes a
Table(a, p) ==
    [bold          |-> Flag(a.bold, p, 1, 22),
     italic        |-> Flag(a.italic, p, 3, 23),
     underline     |-> Flag(a.underline, p, 4, 24),
     reverse       |-> Flag(a.reverse, p, 7, 27),
     strikethrough |-> Flag(a.strikethrough, p, 9, 29),
     fg_color      |-> Colour(a.fg_color, p, 30, 39),
     bg_color      |-> Colour(a.bg_color, p, 40, 49)]

RECURSIVE TableAll(_, _)
TableAll(a, params) ==
    IF params = <<>> THEN a ELSE TableAll(Table(a, Head(params)), Tail(params))

\* C17: a graphics-mode sequence leaves the attributes the table gives for
\* its parameters applied left to right: 0 resets all, 1/3/4/7/9 set and
\* 22/23/24/27/29 clear bold/italic/underline/reverse/strikethrough, 30-37
\* and 40-47 set the standard colours, 39 and 49 clear them; each parameter
\* changes its attribute only and one outside the table changes nothing.
C17_GraphicsTable ==
    (last.op = "graphics" /\ ~crashed) =>
        /\ term.parser.current_attributes =
              TableAll(before.parser.current_attributes, last.data)
        /\ (\A k \in 1..Len(last.data) : last.data[k] \notin TableParams) =>
              term.parser.current_attributes = before.parser.current_attributes
        /\ term.grid = before.grid

\* bold red text was reset to normal intensity by 22 and kept its colour
C17_BoldCleared ==
    /\ last.op = "graphics" /\ last.data = <<22>>
    /\ before.parser.current_attributes =
          [DefaultAttributes EXCEPT !.bold = TRUE, !.fg_color = "red"]
    /\ term.parser.current_attributes = Red(DefaultAttributes)

-----------------------------------------------------------------------------
(* Properties of erasing, moving and scrolling, checked under SpecTerminal *)

AllDefault(g) ==
    \A r \in 1..Len(g.rows) : \A c \in 1..Len(g.rows[r]) : g.rows[r][c] = DefaultChar

\* C18: ESC[2J ESC[H decodes to ClearScreen followed by CursorPosition(1, 1),
\* and applied to a grid in any state it returns and leaves the cursor at
\* (0, 0) and every cell the default cell.
C18_ClearHome ==
    (last.op = "process_output" /\ last.data = ClearHome
        /\ ~before.parser.in_escape) =>
        /\ parse(before.parser, ClearHome).out =
              <<Plain("ClearScreen"), Num2("CursorPosition", 1, 1)>>
        /\ ~crashed
        /\ term.grid.cursor = Origin
        /\ AllDefault(term.grid)
        /\ SameDims(before.grid, term.grid)

\* a terminal opened without rows was sent ESC[2J ESC[H and panicked
C18_PanicOnEmpty ==
    /\ last.op = "process_output" /\ last.data = ClearHome
    /\ Len(before.grid.rows) = 0
    /\ overflow_checks
    /\ crashed

\* the cursor of g after a move of n in the direction, stopped at the edge
MovedBy(g, dir, n) ==
    CASE dir = "up"    -> [g.cursor EXCEPT !.row = @ - Min(n, @)]
      [] dir = "down"  -> [g.cursor EXCEPT !.row = @ + Min(n, Len(g.rows) - 1 - @)]
      [] dir = "left"  -> [g.cursor EXCEPT !.col = @ - Min(n, @)]
      [] dir = "right" -> [g.cursor EXCEPT !.col = @ + Min(n, g.cols - 1 - @)]

\* C19: for every 16-bit parameter n a cursor move up, down, left or right
\* returns and leaves the cursor moved in its direction by n or up to the
\* edge of the grid, whichever is less.
C19_MovesClamp ==
    \A mv \in CursorMoves :
        (last.op = "process_output" /\ last.data = mv.data
            /\ ~before.parser.in_escape /\ CursorInBounds(before.grid)) =>
            /\ ~crashed
            /\ term.grid.cursor = MovedBy(before.grid, mv.dir, mv.n)

\* cursor-down(40000) moved the cursor up from the last row
C19_DownWentUp ==
    /\ AppliedFromGround(Move("B", "down", 40000).data)
    /\ CursorInBounds(before.grid)
    /\ before.grid.cursor.row = Len(before.grid.rows) - 1
    /\ term.grid.cursor.row < before.grid.cursor.row

\* C20: scroll-up(n) with n below the row count makes each of the first
\* rows - n rows the row that was n below it, makes the last n rows blank and
\* leaves the cursor and the row count as they were; with n at or above the
\* row count it leaves every cell default and the cursor at the origin.
C20_ScrollUp ==
    \A n \in ScrollCounts :
        (last.op = "process_output" /\ last.data = ScrollUpBy(n)
            /\ ~before.parser.in_escape) =>
            /\ ~crashed
            /\ Len(term.grid.rows) = Len(before.grid.rows)
            /\ IF n < Len(before.grid.rows)
               THEN /\ \A i \in 1..(Len(before.grid.rows) - n) :
                          term.grid.rows[i] = before.grid.rows[i + n]
                    /\ \A i \in (Len(before.grid.rows) - n + 1)..Len(before.grid.rows) :
                          term.grid.rows[i] = BlankRow(before.grid.cols)
                    /\ term.grid.cursor = before.grid.cursor
               ELSE /\ AllDefault(term.grid)
                    /\ SameDims(before.grid, term.grid)
                    /\ term.grid.cursor = Origin

\* a scroll by one line moved written text from the second row to the first
C20_Scrolled ==
    /\ AppliedFromGround(ScrollUpBy(1))
    /\ Len(before.grid.rows) = 2
    /\ before.grid.cols >= 1
    /\ before.grid.rows[2][1] # DefaultChar
    /\ before.grid.cursor # Origin
    /\ term.grid.rows[1] = before.grid.rows[2]
    /\ term.grid.rows[2] = BlankRow(before.grid.cols)

\* the cell of g at row r and column c, both counted from 1
CellAt(g, r, c) == g.rows[r][c]

\* the cells of g in the rectangle both grids share are those of old, and
\* every other cell of g is the default cell
KeptWithin(old, g) ==
    \A r \in 1..Len(g.rows) : \A c \in 1..Len(g.rows[r]) :
        CellAt(g, r, c) =
            IF r <= Len(old.rows) /\ c <= Len(old.rows[r])
            THEN CellAt(old, r, c) ELSE DefaultChar

\* C21: resize(new columns, new rows) returns a grid of new-rows rows of
\* new-columns cells in which the cells within both the old and the new size
\* are kept, every other cell is default, and the cursor is at
\* (min(old row, new rows - 1), min(old column, new columns - 1)).
C21_Resize ==
    last.op = "resize" =>
        /\ ~crashed
        /\ Len(term.grid.rows) = last.rows
        /\ \A r \in 1..Len(term.grid.rows) : Len(term.grid.rows[r]) = last.cols
        /\ KeptWithin(before.grid, term.grid)
        /\ term.grid.cursor.row = Min(before.grid.cursor.row, last.rows - 1)
        /\ term.grid.cursor.col = Min(before.grid.cursor.col, last.cols - 1)

\* a resize to no rows of a grid that held text did not return: the
\* subtraction new_rows as u16 - 1 overflowed
C21_PanicOnNoRows ==
    /\ last.op = "resize"
    /\ last.rows = 0
    /\ last.cols >= 1
    /\ ~AllDefault(before.grid)
    /\ crashed

\* the positions of pty_in that hold a byte of request r
BytesOf(r) == { i \in DOMAIN pty_in : pty_in[i].req = r }

\* C22: the bytes of each write request reach the writer of the PTY as one
\* contiguous block, in the order of the request: no byte of another request
\* lies between two bytes of one request.
C22_Contiguous ==
    \A r \in 1..MaxRequests :
        /\ \A i \in BytesOf(r) : \A k \in BytesOf(r) :
              \A j \in i..k : pty_in[j].req = r
        /\ Cardinality(BytesOf(r)) = write_tasks[r].pos
        /\ \A i \in BytesOf(r) :
              pty_in[i].byte =
                  write_tasks[r].data[Cardinality({ k \in BytesOf(r) : k <= i })]

\* one request is written in full, a second holds the guard with a part of
\* its bytes written, and a third waits for the guard
C22_Contended ==
    \E r \in 1..MaxRequests, q \in 1..MaxRequests, p \in 1..MaxRequests :
        /\ write_tasks[r].pc = "done"
        /\ write_tasks[r].pos = Len(write_tasks[r].data)
        /\ write_tasks[q].pc = "locked"
        /\ write_tasks[q].pos >= 1
        /\ write_tasks[q].pos < Len(write_tasks[q].data)
        /\ write_tasks[p].pc = "spawned"
        /\ Len(pty_in) = write_tasks[r].pos + write_tasks[q].pos

-----------------------------------------------------------------------------
(* Properties of the orchestrator's calls on sessions that are not open *)

\* the four stores are left as they were
StoresUnchanged == UNCHANGED <<terminals, shell_hooks, search_index, processes>>

\* C23: once close_terminal(id) has returned, every write_to_terminal(id)
\* and every resize_terminal(id) returns an error, without a panic, and
\* changes none of the four stores.
C23_ClosedNotFound ==
    [][ ((WriteToTerminal \/ ResizeTerminal) /\ call'.id \in closed) =>
            (outcome' = "Err" /\ StoresUnchanged) ]_vars

\* a write or a resize named an id close_terminal had returned for, and
\* panicked on a poisoned lock
C23_PanicAfterClose ==
    /\ call.op \in {"write", "resize"}
    /\ call.id \in closed
    /\ outcome = "Panic"
    /\ poisoned # {}

\* the stores that hold session id
StoresOf(id) ==
    { name \in {"terminals", "shell_hooks", "search_index", "processes"} :
        id \in DOMAIN (CASE name = "terminals" -> terminals
                         [] name = "shell_hooks" -> shell_hooks
                         [] name = "search_index" -> search_index
                         [] name = "processes" -> processes) }

\* every session but id is in the stores it was in, with the state it had
OthersUnchanged(id) ==
    /\ Remove(terminals', id) = Remove(terminals, id)
    /\ Remove(shell_hooks', id) = Remove(shell_hooks, id)
    /\ Remove(search_index', id) = Remove(search_index, id)
    /\ Remove(processes', id) = Remove(processes, id)

\* C24: close_terminal(id) returns without a crash and leaves id in no
\* store and every other session as it was; called for an id that is in no
\* store (a second close) it changes nothing.
C24_CloseIdempotent ==
    [][ CloseTerminal =>
            /\ outcome' = "Ok"
            /\ call'.id \notin (DOMAIN terminals' \cup DOMAIN shell_hooks')
                                  \cup (DOMAIN search_index' \cup DOMAIN processes')
            /\ OthersUnchanged(call'.id)
            /\ StoresOf(call'.id) = {} => StoresUnchanged ]_vars

\* close_terminal of a session that was opened took the session out of the
\* four stores and did not return: it panicked with the lock of pty_manager
\* held
C24_ClosePanicked ==
    /\ call.op = "close"
    /\ call.id \in 1..MaxSessions
    /\ StoresOf(call.id) = {}
    /\ outcome = "Panic"
    /\ poisoned = {"pty_manager"}

\* the three stores process_output works on
FedStores ==
    [shell_hooks |-> shell_hooks, search_index |-> search_index,
     terminals |-> terminals]

\* an output chunk tagged with a session that is in no store leaves the
\* stores as they are
UnknownOutputIgnored ==
    \A id \in 0..MaxSessions : \A data \in ReaderChunks :
        StoresOf(id) = {} =>
            process_output(FedStores, Output(id, data), clock, overflow_checks)
                = FedStores

\* an operation of the TerminalManager that names a session
SessionCall ==
    (CloseTerminal \/ ResizeTerminal) \/ (WriteToTerminal \/ HandleTabCompletion)

\* C25: every orchestrator operation that names a session id in no store
\* ends in a not-found failure and changes no store, and an output chunk
\* tagged with such an id creates no terminal, tracker or index entry.
C25_UnknownIsNotFound ==
    [][ /\ UnknownOutputIgnored
        /\ (SessionCall /\ StoresOf(call'.id) = {}) =>
               (outcome' = "Err" /\ StoresUnchanged) ]_vars

\* close_terminal was called with an id that was never handed out, and
\* returned Ok
C25_UnknownCloseOk ==
    /\ call = Call("close", 0)
    /\ outcome = "Ok"
    /\ 0 \in closed
    /\ poisoned = {}

-----------------------------------------------------------------------------
(* Properties of the locks, checked under SpecWriter and SpecIndexLock *)

\* C26: an append to a session's search index never waits for a search, a
\* context query or a tail query in progress, on the same or on another
\* session.
C26_AppendNeverWaits ==
    \A t \in 1..MaxThreads :
        threads[t].op = "append" => threads[t].behind \notin IndexQueries

\* process_output for session 1 is parked at the lock of search_index while
\* another thread searches the index of session 2
C26_AppendWaits ==
    \E t \in 1..MaxThreads, u \in 1..MaxThreads :
        /\ threads[t] = InCall("waiting", "append", 1, "search")
        /\ threads[u] = InCall("holding", "search", 2, "none")
        /\ index_lock = u

-----------------------------------------------------------------------------
(* Properties of the decoder's buffer, checked under SpecBuffer *)

\* the cap the buffer is held against: two of the longest chunk fed
BufferCap == 10

\* C27: the buffer the decoder keeps between two calls of parse never holds
\* more than a fixed number of characters, whatever is fed, an escape
\* sequence that is never terminated included.
C27_BufferBounded == Len(parser.buffer) <= BufferCap

\* an OSC sequence was started and never ended: the buffer holds every
\* character fed since, more than the cap
C27_KeepsAll ==
    /\ parser.in_escape
    /\ parser.escape_type = "OSC"
    /\ Len(chunks) >= 3
    /\ parser.buffer = Fed
    /\ Len(parser.buffer) > BufferCap

-----------------------------------------------------------------------------
(* Properties of the tracker's history, checked under SpecHistory *)

\* the history holds no more than max_history_size commands, each with its
\* duration set, and the command in flight has none
HistoryBounded ==
    /\ Len(hooks.command_history) <= hooks.max_history_size
    /\ \A i \in 1..Len(hooks.command_history) :
          hooks.command_history[i].duration_ms # <<>>
    /\ hooks.current_command # <<>> =>
          /\ hooks.current_command[1].duration_ms = <<>>
          /\ \A i \in 1..Len(hooks.command_history) :
                hooks.command_history[i] # hooks.current_command[1]

\* a history that changed took one command at its end, after the oldest
\* was dropped if it was full
OldestEvicted ==
    hooks'.command_history # hooks.command_history =>
        /\ hooks'.command_history # <<>>
        /\ hooks'.command_history =
              Append(IF Len(hooks.command_history) >= hooks.max_history_size
                     THEN Tail(hooks.command_history)
                     ELSE hooks.command_history,
                     hooks'.command_history[Len(hooks'.command_history)])

\* C28: after any sequence of outputs the history holds at most
\* max_history_size entries; a command that completes while the history is
\* full evicts the oldest entry and the others keep their order; every entry
\* has its duration set and the command in flight is not in the history.
C28_HistoryBounded == [](HistoryBounded) /\ [][OldestEvicted]_vars

\* three commands completed on a tracker that keeps two: the history holds
\* the second and the third, in that order
C28_Evicted ==
    /\ hooks.max_history_size = 2
    /\ fed = <<PromptLine, Round(<<"l","s">>), Round(<<"p","w","d">>),
               Round(<<"l","s">>)>>
    /\ Len(hooks.command_history) = 2
    /\ hooks.command_history[1].text = <<"p","w","d">>
    /\ hooks.command_history[2].text = <<"l","s">>

-----------------------------------------------------------------------------
(* Properties of the tracker's prompts and commands, checked under SpecHooks *)

\* the chunk process_output was called with last
LastFed == fed'[Len(fed')]

\* the line of a chunk that is one line, with or without its line end
LineOfChunk(data) ==
    TrimEndMatches(IF Contains(data, LF) THEN SubSeq(data, 1, Len(data) - 1)
                   ELSE data, {CR})

\* the chunk holds no line end but a last one
OneLine(data) == ~Contains(LineOfChunk(data), LF)

\* process_output was called with a chunk of one line while the buffer was
\* empty, and check_for_prompt took the line for a prompt
PromptRecognized ==
    /\ fed' # fed
    /\ hooks.output_buffer = <<>>
    /\ OneLine(LastFed)
    /\ Trim(LineOfChunk(LastFed)) # <<>>
    /\ check_for_prompt(hooks, LineOfChunk(LastFed)).found

\* the snapshot holds the prompt of the POSIX shell user@host:~
PosixSnapshot(p) ==
    /\ p.user = <<"u","s","e","r">>
    /\ p.hostname = <<"h","o","s","t">>
    /\ p.working_dir = <<"~">>

\* C29: whenever the tracker recognizes a prompt of a supported shell, the
\* current-prompt snapshot is present afterwards and holds the prompt's text
\* and working directory (user and host too for user@host:~$), and
\* is_at_prompt answers true when no command is in flight.
C29_PromptSnapshot ==
    [][ PromptRecognized =>
          /\ hooks'.current_prompt # <<>>
          /\ hooks'.current_prompt[1].prompt_text =
                strip_ansi_codes(LineOfChunk(LastFed))
          /\ hooks'.current_prompt[1].working_dir = hooks'.working_dir
          /\ LineOfChunk(LastFed) = Prompt => PosixSnapshot(hooks'.current_prompt[1])
          /\ hooks'.current_command = <<>> => is_at_prompt(hooks') ]_vars

\* the PowerShell prompt PS /> was recognized, the shell type and the working
\* directory were taken from it, and there is no snapshot: is_at_prompt
\* answers false
C29_NoSnapshot ==
    /\ fed = << <<"P","S"," ","/",">"," ">> >>
    /\ hooks.shell_type = "PowerShell"
    /\ hooks.working_dir = <<"/">>
    /\ hooks.current_prompt = <<>>
    /\ hooks.current_command = <<>>
    /\ ~is_at_prompt(hooks)


\* process_output was called with one whole line that is no prompt
OutputLineFed ==
    /\ fed' # fed
    /\ hooks.output_buffer = <<>>
    /\ OneLine(LastFed)
    /\ Contains(LastFed, LF)
    /\ Trim(LineOfChunk(LastFed)) # <<>>
    /\ ~check_for_prompt(hooks, LineOfChunk(LastFed)).found

\* the first command-like line after a prompt becomes the in-flight command
BecomesInFlight ==
    (/\ OutputLineFed
     /\ is_at_prompt(hooks)
     /\ ~StartsWith(LastFed, <<" ">>)
     /\ looks_like_command(hooks, LineOfChunk(LastFed)))
    => /\ hooks'.current_command # <<>>
       /\ hooks'.current_command[1].text = LineOfChunk(LastFed)
       /\ hooks'.current_command[1].timestamp = clock'

\* a line of output leaves the in-flight command as it is
InFlightKept ==
    (OutputLineFed /\ hooks.current_command # <<>>)
    => hooks'.current_command = hooks.current_command

\* the next prompt appends the in-flight command to the history
InFlightAppended ==
    (fed' # fed /\ LastFed = PromptLine /\ hooks.current_command # <<>>)
    => /\ hooks'.current_command = <<>>
       /\ hooks'.command_history # <<>>
       /\ LET done == hooks'.command_history[Len(hooks'.command_history)]
          IN  /\ done.text = hooks.current_command[1].text
              /\ done.timestamp = hooks.current_command[1].timestamp

\* C30: the first non-empty, non-prompt, command-like line after a recognized
\* prompt becomes the in-flight command with its text and start timestamp;
\* while a command is in flight, further non-prompt lines leave it as it is;
\* the entry appended at the next prompt is that command.
C30_CommandInFlight ==
    [][BecomesInFlight /\ InFlightKept /\ InFlightAppended]_vars

\* after the prompt, ls and its output ok, the next prompt appended ok to the
\* history, and ls is nowhere in it
C30_OutputReplaced ==
    /\ fed = <<PromptLine, <<"l","s",LF>>, <<"o","k",LF>>, PromptLine>>
    /\ Len(hooks.command_history) = 1
    /\ hooks.command_history[1].text = <<"o","k">>


-----------------------------------------------------------------------------
(* Properties of the tracker's chunk boundaries, checked under SpecHooks *)

\* what the tracker holds, without the readings of the clock
CommandText(cs) == [i \in 1..Len(cs) |-> [cs[i] EXCEPT !.timestamp = 0, !.duration_ms = <<>>]]

Tracked(h) ==
    [command_history |-> CommandText(h.command_history),
     current_command |-> CommandText(h.current_command),
     current_prompt  |-> h.current_prompt,
     working_dir     |-> h.working_dir,
     shell_type      |-> h.shell_type]

\* the tracker after the chunks given were fed to h one after the other
RECURSIVE FedEach(_, _)
FedEach(h, cs) ==
    IF cs = <<>> THEN h
    ELSE FedEach(HooksProcessOutput(h, Head(cs), 0), Tail(cs))

\* the shell types the tracker that was fed may have been created with
StartedAs ==
    { s \in {"Bash", "Zsh"} :
        Tracked(FedEach(NewHooks(s, <<"/">>, hooks.order), fed)) = Tracked(hooks) }

\* C31: for any way of cutting the output stream into chunks, after all chunks
\* were fed in order the tracker's history, in-flight command, current-prompt
\* snapshot, working directory and shell type are the same as after feeding
\* the stream as a single chunk.
C31_ChunkingIrrelevant ==
    \A s \in StartedAs :
        Tracked(hooks) =
            Tracked(HooksProcessOutput(NewHooks(s, <<"/">>, hooks.order),
                                       Concat(fed), clock))

\* the stream user@host:~$ ls LF was cut after the prompt: the whole line is
\* the in-flight command, while the stream fed as one chunk starts no command
C31_CutAfterPrompt ==
    /\ fed = <<Prompt, <<"l","s",LF>> >>
    /\ hooks.current_command # <<>>
    /\ hooks.current_command[1].text = Prompt \o <<"l","s">>
    /\ \A s \in StartedAs :
          HooksProcessOutput(NewHooks(s, <<"/">>, hooks.order),
                             Concat(fed), clock).current_command = <<>>
    /\ StartedAs # {}


-----------------------------------------------------------------------------
(* Properties of the index's chunk boundaries, checked under SpecIndex *)

\* C32: append(a) followed by append(b) leaves the same committed lines and
\* the same pending partial line as append(a followed by b), also when the cut
\* falls inside an escape sequence or between a carriage return and its line
\* feed.
C32_AppendsConcatenate ==
    /\ scrollback.lines =
          IndexAppend(NewIndex(scrollback.max_lines), Concat(appended)).lines
    /\ scrollback.buf =
          IndexAppend(NewIndex(scrollback.max_lines), Concat(appended)).buf

\* c CR LF was cut between the carriage return and the line feed: two lines
\* were committed, while the whole text commits one
C32_CutInLineEnd ==
    /\ appended = << <<"c", CR>>, <<LF>> >>
    /\ scrollback.max_lines = MaxKept
    /\ scrollback.lines = << <<"c">>, <<>> >>
    /\ IndexAppend(NewIndex(MaxKept), <<"c", CR, LF>>).lines = << <<"c">> >>


-----------------------------------------------------------------------------
(* Properties of the partial erases, checked under SpecTerminal *)

\* the cells an erase is directed at, for a cursor on row and col counted from
\* 0 and a cell at r and c counted from 1
ToEndOfLine(row, col, r, c) == r = row + 1 /\ c >= col + 1
ToStartOfLine(row, col, r, c) == r = row + 1 /\ c <= col + 1
FromCursor(row, col, r, c) == r > row + 1 \/ ToEndOfLine(row, col, r, c)
ToCursor(row, col, r, c) == r < row + 1 \/ ToStartOfLine(row, col, r, c)

\* the cursor and the cells outside the zone with the name given are as before
KeptOutside(zone) ==
    /\ term.grid.cursor = before.grid.cursor
    /\ SameDims(before.grid, term.grid)
    /\ \A r \in 1..Len(term.grid.rows) : \A c \in 1..Len(term.grid.rows[r]) :
          LET row == before.grid.cursor.row
              col == before.grid.cursor.col
              in  == CASE zone = "K0" -> ToEndOfLine(row, col, r, c)
                       [] zone = "K1" -> ToStartOfLine(row, col, r, c)
                       [] zone = "J0" -> FromCursor(row, col, r, c)
                       [] zone = "J1" -> ToCursor(row, col, r, c)
          IN  CellAt(term.grid, r, c) =
                 IF in THEN (IF zone \in {"J0", "J1"} THEN DefaultChar
                             ELSE CellAt(term.grid, r, c))
                 ELSE CellAt(before.grid, r, c)

\* C33: erase-to-end-of-line leaves the cells left of the cursor unchanged,
\* erase-to-start-of-line leaves the cells right of the cursor unchanged,
\* erase-from-cursor and erase-to-cursor reset exactly the cells of the screen
\* after, respectively before, the cursor; each leaves the cursor position and
\* every cell outside its direction unchanged.
C33_PartialErase ==
    /\ AppliedFromGround(Csi(<<"K">>)) => KeptOutside("K0")
    /\ AppliedFromGround(Csi(<<"1", "K">>)) => KeptOutside("K1")
    /\ AppliedFromGround(Csi(<<"J">>)) => KeptOutside("J0")
    /\ AppliedFromGround(Csi(<<"1", "J">>)) => KeptOutside("J1")

\* erase-to-end-of-line was applied with the cursor right of a written cell,
\* and the written cell is blank afterwards
C33_LeftOfCursorErased ==
    /\ AppliedFromGround(Csi(<<"K">>))
    /\ before.grid.cursor = [row |-> 0, col |-> 1]
    /\ Len(before.grid.rows) >= 1 /\ before.grid.cols >= 2
    /\ CellAt(before.grid, 1, 1) # DefaultChar
    /\ CellAt(term.grid, 1, 1) = DefaultChar


-----------------------------------------------------------------------------
(* Properties of the pending line and of context, checked under SpecContext *)

\* the chunk append was called with last
LastAppended == appended'[Len(appended')]

\* without a line feed in the chunk appended, no line is committed
CommittedOnLineFeed ==
    (appended' # appended /\ ~Contains(LastAppended, LF))
    => scrollback'.lines = scrollback.lines

\* c CR LF commits one line, the pending text followed by c
CrLfCommitsOne ==
    (/\ appended' # appended
     /\ LastAppended = <<"c", CR, LF>>
     /\ Len(scrollback.lines) < scrollback.max_lines)
    => /\ scrollback'.lines = Append(scrollback.lines, scrollback.buf \o <<"c">>)
       /\ scrollback'.buf = <<>>

\* search returns committed lines only: a query found in no committed line
\* has no match, whatever the pending line holds
SearchSkipsPending ==
    asked' # asked =>
        /\ \A k \in 1..Len(found') :
              /\ found'[k].line_index < Len(scrollback.lines)
              /\ found'[k].line = scrollback.lines[found'[k].line_index + 1]
        /\ (\A i \in 1..Len(scrollback.lines) :
               FindFrom(scrollback.lines[i], asked'.query, 1) = 0)
           => found' = <<>>

\* context and tail return committed lines only
WindowSkipsPending ==
    shown' # shown =>
        /\ shown'.op = "context" =>
              \A k \in 1..Len(shown'.lines) :
                  /\ shown'.lines[k].line_index < Len(scrollback.lines)
                  /\ shown'.lines[k].line =
                        scrollback.lines[shown'.lines[k].line_index + 1]
        /\ shown'.op = "tail" =>
              /\ Len(shown'.lines) = Min(shown'.count, Len(scrollback.lines))
              /\ \A k \in 1..Len(shown'.lines) :
                    shown'.lines[k] =
                       scrollback.lines[Len(scrollback.lines) - Len(shown'.lines) + k]

CommittedOnLineEnd ==
    (/\ appended' # appended
     /\ ~Contains(LastAppended, LF)
     /\ ~Contains(LastAppended, CR))
    => /\ scrollback'.lines = scrollback.lines
       /\ scrollback'.buf = scrollback.buf \o LastAppended

\* c CR, with no line feed after it in the chunk, commits one line
ReturnCommitsOne ==
    (/\ appended' # appended
     /\ LastAppended = <<"c", CR>>
     /\ Len(scrollback.lines) < scrollback.max_lines)
    => /\ scrollback'.lines = Append(scrollback.lines, scrollback.buf \o <<"c">>)
       /\ scrollback'.buf = <<>>

CentredOn(m) ==
    \E j \in 1..Len(shown.lines) :
        /\ shown.lines[j].line_index = m.line_index
        /\ shown.lines[j].line = m.line

\* C40: a line index returned by search keeps identifying the same line: the
\* window context returns for it later, after further output was appended
\* (evictions included), is centred on the line whose text the match reported;
\* for an index beyond the last stored line context returns, with no line of
\* that index.
C40_IndexStable ==
    (shown.called /\ shown.op = "context") =>
        /\ \A k \in 1..Len(found) :
              found[k].line_index = shown.line_index => CentredOn(found[k])
        /\ shown.line_index >= Len(scrollback.lines) =>
              \A j \in 1..Len(shown.lines) :
                  shown.lines[j].line_index # shown.line_index

\* an index of one line: search found o in line 0, foo; c CR LF was appended
\* and evicted foo; the context of line 0 is the line c
C40_IndexShifted ==
    /\ scrollback.max_lines = 1
    /\ appended = << <<"f", "o", "o", LF>>, <<"c", CR, LF>> >>
    /\ asked.called /\ asked.query = <<"o">>
    /\ Len(found) >= 1 /\ found[1].line_index = 0 /\ found[1].line = <<"f", "o", "o">>
    /\ shown.called /\ shown.op = "context" /\ shown.line_index = 0
    /\ shown.lines = << [line_index |-> 0, line |-> <<"c">>] >>


-----------------------------------------------------------------------------
(* Properties of the choice of a sequence family, checked under SpecDecoder *)

\* C35: only the byte that follows the escape introducer selects the family of
\* the sequence, and every sequence started is closed: after an escape
\* followed by a byte that selects no family (ESC 7, ESC =, ESC c) or after a
\* single shift, the decoder has emitted an operation for it, the printable
\* text that follows is emitted as print-text, and nothing is left in the
\* buffer.
C35_FamilyByNextByte ==
    \A s \in NoFamilyTokens, t \in FamilyTexts :
        (stream = s \o t /\ AllFed) =>
            /\ ~parser.in_escape
            /\ parser.buffer = <<>>
            /\ Len(MergeText(ops)) = 2
            /\ MergeText(ops)[1].op # "PrintText"
            /\ MergeText(ops)[2] = PrintText(t)

\* ESC 7 and the text hi were decoded whole: no command came out and the
\* decoder still accumulates, the text in its buffer
C35_TextSwallowed ==
    /\ stream = <<ESC, "7", "h", "i">>
    /\ AllFed
    /\ ops = <<>>
    /\ parser.in_escape
    /\ parser.buffer = <<ESC, "7", "h", "i">>


-----------------------------------------------------------------------------
(* Properties of the guards of the stores, checked under SpecGuards *)

\* the thread waits for a guard that the other thread holds
WaitsFor(t, u) ==
    /\ threads[t].pc = "locking"
    /\ StoreAt(t) \in threads[u].held

\* C36: no operation of the orchestrator holds the guard of more than one of
\* the per-session stores (terminals, trackers, search indexes) at a time;
\* each guard is released before the next is taken, so no cycle of threads
\* that wait for each other's guard is reachable.
C36_OneGuardAtATime ==
    \A t \in 1..MaxThreads :
        /\ Cardinality(threads[t].held \cap SessionStores) <= 1
        /\ threads[t].pc = "locking" => threads[t].held = {}
        /\ \A u \in 1..MaxThreads : ~(WaitsFor(t, u) /\ WaitsFor(u, t))

\* process_output holds the guard of terminals, its third, and no other,
\* while another thread holds the guard of shell_hooks
C36_ThirdGuardAlone ==
    \E t \in 1..MaxThreads, u \in 1..MaxThreads :
        /\ threads[t] = InMethod("holding", "process_output", 3, {"terminals"})
        /\ threads[u].pc = "holding"
        /\ threads[u].held = {"shell_hooks"}


-----------------------------------------------------------------------------
(* Properties of the writes and resizes of open sessions, checked under    *)
(* SpecOrch                                                                  *)

\* C37: a write to session A is accepted whatever write, resize or close was
\* made on a different session B: write_to_terminal for a session that is
\* open returns Ok.
C37_WritesIndependent ==
    [][ (WriteToTerminal /\ call'.id \in DOMAIN processes) => outcome' = "Ok" ]_vars

\* two sessions were opened and one of them closed, which poisoned the lock
\* of pty_manager; the write to the session that is still open panicked
C37_WriteAfterOtherClose ==
    /\ next_id = 3
    /\ call.op = "write"
    /\ DOMAIN processes = {call.id}
    /\ "pty_manager" \in poisoned
    /\ outcome = "Panic"


-----------------------------------------------------------------------------
(* Properties of the order of writes, checked under SpecWriter *)

\* the calls of write_to_session that returned Ok
Accepted == { r \in 1..MaxRequests : write_tasks[r].pc \notin {"none", "not found"} }

\* no task is still to run or running
AllTasksRan == \A r \in Accepted : write_tasks[r].pc \notin {"spawned", "locked"}

\* C38: writes to one session that each returned success, made one after the
\* other by one caller, are written to the child's input in the order of the
\* calls, and none of them is dropped while the session stays open.
C38_InCallOrder ==
    /\ \A i \in DOMAIN pty_in : \A j \in DOMAIN pty_in :
          i < j => pty_in[i].req <= pty_in[j].req
    /\ (session_open /\ AllTasksRan) =>
          \A r \in Accepted : Cardinality(BytesOf(r)) = Len(write_tasks[r].data)

\* the first and the second call returned Ok; the task of the second took the
\* guard first, and its bytes are written before any byte of the first
C38_SecondWrittenFirst ==
    /\ write_tasks[1].pc = "spawned"
    /\ write_tasks[2].pc = "done"
    /\ session_open
    /\ pty_in # <<>>
    /\ \A i \in DOMAIN pty_in : pty_in[i].req = 2


-----------------------------------------------------------------------------
(* Properties of the resizes of an open session, checked under SpecResize *)

\* the resize requests made so far
Requested == { r \in 1..MaxRequests : write_tasks[r].pc # "none" }

\* the size of the request made last
LastRequested == write_tasks[Cardinality(Requested)].data

\* every task that was dispatched has run
AllResized == \A r \in Requested : write_tasks[r].pc # "spawned"

\* the size recorded for the session and the size of its grid are the size of
\* the last request
RecordedLast ==
    /\ processes[ResizedId].size = LastRequested
    /\ terminals[ResizedId].size = LastRequested
    /\ Len(terminals[ResizedId].grid.rows) = LastRequested.rows
    /\ terminals[ResizedId].grid.cols = LastRequested.cols

\* C39: after all resize requests on an open session were processed and all
\* dispatched tasks have run, the size applied to the OS terminal handle is
\* the size of the last request, which is also the recorded session size and
\* the size of the grid.
C39_LastResizeWins ==
    (Requested # {} /\ AllResized) =>
        /\ pty_in # <<>>
        /\ pty_in[Len(pty_in)] = LastRequested
        /\ RecordedLast

\* two resizes were requested, to 1x1 and then to 2x1, and both tasks have
\* run, the task of the first after that of the second: the OS handle has
\* the size 1x1 while the session and the grid have 2x1
C39_StaleSizeApplied ==
    /\ Requested = {1, 2}
    /\ AllResized
    /\ write_tasks[1].data = TerminalSize(1, 1)
    /\ write_tasks[2].data = TerminalSize(2, 1)
    /\ pty_in = <<TerminalSize(2, 1), TerminalSize(1, 1)>>
    /\ RecordedLast

=============================================================================
